---- MODULE Spec2Model ----
(***************************************************************************)
(* Readiness polling and process supervision of the cloudflared component  *)
(* tests (src/component-tests/util.py, cli.py and the scenarios that use   *)
(* them).                                                                  *)
(*                                                                         *)
(* SpecWait models one call of wait_tunnel_ready against the readiness     *)
(* endpoint and the tunnel URL.  The two @retry decorators are modelled    *)
(* as the `retrying` library runs them: an attempt that raises is retried  *)
(* until attempt_number >= stop_max_attempt_number, and then the           *)
(* exception of the last attempt is re-raised.                             *)
(*                                                                         *)
(* SpecLife models one scope around a child process                        *)
(* (run_cloudflared_background or CloudflaredCli) with its cleanup, the    *)
(* body's terminate_by_signal and check_tunnel_not_connected calls, and    *)
(* the child's exit.                                                       *)
(***************************************************************************)
EXTENDS Integers, Sequences, FiniteSets, TLC

\* constants.py (imported at util.py:16) is not part of the sources at hand;
\* the value is the one the component tests ship with.
MAX_RETRIES == 5
\* constants.BACKOFF_SECS, the seconds @retry waits between two attempts
\* (wait_fixed) and the timeout of one GET.
BACKOFF_SECS == 7

\* Largest readyConnections value the readiness endpoint reports in the model.
MaxConns == 2
\* Largest number of leading connection refusals of the readiness endpoint.
MaxRefuse == 6

NoBody == -1

\* ------------------------------------------------------------------------
\* What one HTTP GET can come back with: a transport error raised by
\* requests, or a response with a status code and a JSON body.
ConnectionError == [kind |-> "ConnectionError", status |-> 0, readyConnections |-> 0]
ReadTimeout == [kind |-> "ReadTimeout", status |-> 0, readyConnections |-> 0]
Response(status, n) == [kind |-> "Response", status |-> status, readyConnections |-> n]
NoSnapshot == [kind |-> "none", status |-> 0, readyConnections |-> 0]

TransportErrors == {ConnectionError, ReadTimeout}
ReadyResponses == TransportErrors \cup {Response(s, n) : s \in {200, 503}, n \in 0..MaxConns}
TunnelResponses == TransportErrors \cup {Response(200, 0), Response(502, 0)}

\* Exceptions, with what their message embeds.
NoExc == [type |-> "none", check |-> "none", url |-> "none", status |-> 0, body |-> NoBody]
RequestException(url, resp) ==
    [type |-> resp.kind, check |-> "none", url |-> url, status |-> 0, body |-> NoBody]
StatusAssertion(url, resp) ==
    [type |-> "AssertionError", check |-> "status", url |-> url,
     status |-> resp.status, body |-> NoBody]
ConnectionsAssertion(resp, min) ==
    [type |-> "AssertionError", check |-> "connections", url |-> "ready",
     status |-> 0, body |-> resp.readyConnections]

VARIABLES
    w_pc,                     \* where the call is: "get_ready", "get_tunnel", "done"
    tunnel_url,               \* "None" or "url"
    require_min_connections,
    attempt_outer,            \* attempt_number of inner_wait_tunnel_ready's retry
    attempt_inner,            \* attempt_number of send_request's retry
    outcome,                  \* "running", "returned", "raised"
    exc,                      \* the exception that reached the caller
    refuseLeft,               \* endpoint: connection refusals still to come
    refuseInit,               \* endpoint: refusals it started with
    endpoint,                 \* endpoint afterwards: "steady" or "any"
    steadyResp,               \* the steady endpoint's answer
    tunnelMode,               \* tunnel URL: "up" (always 200) or "any"
    readyGets,                \* observer: GETs sent to /ready
    lastSnapshot,             \* observer: last response of /ready
    readyOkAttempt,           \* observer: outer attempt in which /ready last
                              \*   answered 200 with enough connections (0: none)
    tunnelOkAttempt,          \* observer: outer attempt in which the tunnel URL
                              \*   last answered 200 (0: none)
    tunnelUnchecked           \* observer: the tunnel URL was requested in an
                              \*   attempt in which /ready had not passed

waitVars == <<w_pc, tunnel_url, require_min_connections, attempt_outer, attempt_inner,
              outcome, exc, refuseLeft, refuseInit, endpoint, steadyResp, tunnelMode,
              readyGets, lastSnapshot, readyOkAttempt, tunnelOkAttempt, tunnelUnchecked>>

VARIABLES
    scope_kind,               \* "background": run_cloudflared_background,
                              \*   "cli": with CloudflaredCli(...)
    capture_output,
    s_pc,                     \* where the scope is
    b_pc,                     \* where the body is: "free", or inside
                              \*   terminate_by_signal at "check" or "wait"
    cfd,                      \* the handle: "None" or "Popen"
    proc,                     \* the child: "absent", "running", "exited"
    leave,                    \* how the body was left
    terminate_called,         \* the scope called terminate()
    terminators,              \* who delivered a termination signal to the
                              \*   running child: "body", "scope"
    body_signalled,           \* the body called send_signal
    kill_sent,                \* terminate_gracefully called kill()
    polls,                    \* wait_for_terminate: polls that saw it running
    stdout_read,              \* stdout was read to its end
    stderr_read,              \* stderr was read to its end
    c_pc,                     \* check_tunnel_not_connected: "idle", "get", "done"
    c_attempt,                \* attempt_number of its retry
    c_outcome,                \* "running", "returned", "raised"
    c_calls,                  \* calls made by the body
    c_gets,                   \* observer: GETs sent to /ready in this call
    c_sawNotReady,            \* observer: in this call the endpoint answered
                              \*   503 with 0 connections, or the connection failed
    c_allReady,               \* observer: in this call every GET was answered,
                              \*   with status 200 or readyConnections > 0
    c_afterExit,              \* observer: this call began after the child exited
    c_callsAfterExit,         \* observer: calls begun after the child exited
    c_okAfterExit,            \* observer: those that returned on the first GET
    lastCheck                 \* observer: the last comparison of an observed
                              \*   connection count with an expected one

scopeVars == <<scope_kind, capture_output, s_pc, b_pc, cfd, proc, leave, terminate_called,
               terminators, body_signalled, kill_sent, polls, stdout_read, stderr_read>>
ctncVars == <<c_pc, c_attempt, c_outcome, c_calls, c_gets, c_sawNotReady, c_allReady,
              c_afterExit, c_callsAfterExit, c_okAfterExit>>
lifeVars == <<scopeVars, ctncVars, lastCheck>>

\* start_cloudflared and run_subprocess: one launch of the binary.
VARIABLES
    st_pc,      \* "call", "body" (the body of the with polls readiness), "done"
    st_api,     \* "run_subprocess", "foreground", "background"
    st_check,   \* check= of subprocess.run (needs_to_pass, expect_success)
    st_child,   \* the binary: "missing", "exit_nonzero", "exit_zero", "runs"
    st_result   \* "none", "returned", or the type of the exception raised

startVars == <<st_pc, st_api, st_check, st_child, st_result>>

\* TestTermination: one run of a termination scenario.
VARIABLES
    t_test,           \* "graceful", "once_no_connection", "no_connection"
    t_pc,             \* the step of the test body the main thread is at
    t_child,          \* "running", "exited"
    t_ready,          \* wait_tunnel_ready returned: a ready state was observed
    t_body_signalled, \* terminate_by_signal called send_signal
    t_signalled,      \* who sent a signal that reached the running child
    t_thread,         \* in_flight_req: "none", "connecting", "streaming", "returned", "raised"
    t_lines,          \* stream_request: lines, counted up to grace_period * 2
    t_saw502,         \* stream_request read the line "502 Bad Gateway"
    t_in_grace,       \* inside with self.within_grace_period()
    t_elapsed,        \* seconds since the signal (since start = time.time())
    t_duration,       \* within_grace_period: duration, or NoDuration
    t_joined,         \* wait_eyeball_thread: "no", "dead" (assertion passed), "alive" (failed)
    t_exc,            \* the exception leaving the body, "none" if there is none
    t_verdict,        \* "running", "passed", "failed"
    t_established,    \* stream_request: requests.get has returned a response
    t_sig_established, \* t_established when terminate_by_signal sent the signal
    t_block_exc,      \* the exception the block of within_grace_period raised
    t_attempt         \* check_tunnel_not_connected: the attempt @retry is at

termVars == <<t_test, t_pc, t_child, t_ready, t_body_signalled, t_signalled, t_thread,
              t_lines, t_saw502, t_in_grace, t_elapsed, t_duration, t_joined, t_exc,
              t_verdict, t_established, t_sig_established, t_block_exc, t_attempt>>

\* TestReconnect: the runs of one reconnect test under @flaky.
VARIABLES
    r_pc,           \* the step of assert_reconnect the test is at
    r_repeat,       \* repeat: 5 (test_named_reconnect) or 1 (test_classic_reconnect)
    r_rep,          \* repetitions completed in this run
    r_i,            \* i of for i in range(default_ha_conns)
    r_directives,   \* reconnect directives written in this repetition
    r_ready_n,      \* the last wait_tunnel_ready observed default_ha_conns or more
    r_zero,         \* check_tunnel_not_connected returned after the last directive
    r_clock,        \* seconds since the last directive was written
    r_reobserved,   \* r_clock when the repetition's last wait returned, or NoTime
    r_runs,         \* runs of the test started so far
    r_last          \* the last check after a directive: which, on what answer, passed

reconVars == <<r_pc, r_repeat, r_rep, r_i, r_directives, r_ready_n, r_zero, r_clock,
               r_reobserved, r_runs, r_last>>

\* test_logging: one call of a log verifier.
VARIABLES
    l_fn,        \* "terminal", "in_file", "json", "to_dir"
    l_pc,        \* "call", "batch" (the loop of assert_log_to_dir), "waiting"
                 \* (in readline on the pipe of a silent child), "done"
    f_len,       \* lines of the log read for expect_message
    f_match,     \* the first of these lines that contains expect_message, 0: none
    f_first,     \* the first line of the file given to assert_json_log
    f_bad,       \* the first line of that file that is not a full record, 0: none
    f_eof,       \* after its f_len lines the input is at its end (a file always
                 \* is; the pipe of a child is once the child has closed stderr)
    f_again,     \* the first line of the current log file when assert_log_to_dir
                 \* reads it a second time
    d_files,     \* len(os.listdir(log_dir)) after the last batch
    d_default,   \* default_log_file is one of the files
    d_cur_size,  \* st_size of the current log file
    d_rot_size,  \* st_size of the other file
    l_batches,   \* turns of the loop of assert_log_to_dir entered
    l_after_two, \* batches sent after a batch that left exactly 2 files
    l_read,      \* lines read by the scan for expect_message
    l_result,    \* "none", "returned", or the error raised
    l_check      \* assert_log_to_dir: the check that failed, "none" if none did

logVars == <<l_fn, l_pc, f_len, f_match, f_first, f_bad, f_eof, f_again, d_files, d_default, d_cur_size,
             d_rot_size, l_batches, l_after_two, l_read, l_result, l_check>>

\* conftest: consecutive tests, each with its own child.
VARIABLES
    q_pc,         \* "fixture", "start", "body", "cleanup", "over"
    q_test,       \* the number of the test that runs
    q_prev_left,  \* seconds the child of the previous test still needs to exit, 0: it has
    q_cur,        \* the child of this test: "absent", "running", "exited"
    q_leave,      \* how the body of this test ended: "none", "normal", "exception"
    q_capture,    \* capture_output of this test's start_cloudflared
    q_alive_max   \* the largest number of children alive at one time so far

seqVars == <<q_pc, q_test, q_prev_left, q_cur, q_leave, q_capture, q_alive_max>>

\* wait_tunnel_ready's except clause.
VARIABLES
    cfd_logs,     \* the cfd_logs argument as the handler found it, "unset" before it ran
    caller_exc    \* the exception that left wait_tunnel_ready

dumpVars == <<cfd_logs, caller_exc>>

\* send_requests(url, count, require_ok).
VARIABLES
    sd_pc,          \* "request", "done"
    sd_require_ok,  \* the require_ok argument
    sd_count,       \* the count argument
    sd_calls,       \* calls of send_request that have ended
    sd_attempt,     \* attempt_number of the running call of send_request
    sd_gets,        \* observer: GETs sent
    sd_errors,      \* errors
    sd_non200,      \* observer: calls whose last response had another status than 200
    sd_last,        \* observer: the call of send_request that ended last
    sd_outcome,     \* "running", "returned", "raised"
    sd_exc          \* the exception that left send_requests

sendVars == <<sd_pc, sd_require_ok, sd_count, sd_calls, sd_attempt, sd_gets, sd_errors,
              sd_non200, sd_last, sd_outcome, sd_exc>>

\* config.py: one config object being constructed.
VARIABLES
    cf_pc,          \* "new", "built"
    cf_class,       \* "NamedTunnelConfig" or "QuickTunnelConfig"
    cf_additional,  \* the dict passed as additional_config
    cf_before,      \* observer: what that dict held when it was passed
    cf_full         \* full_config

cfgVars == <<cf_pc, cf_class, cf_additional, cf_before, cf_full>>

\* github_release.py: two builds that run main for the same version, the
\* repository on GitHub and the checksum store.
VARIABLES
    rl_tags,      \* repo.get_tags(), in the order GitHub lists them
    rl_dir,       \* the files of args.path, in the order of listdir
    rl_release,   \* the release of the version: "none", "old", or the build that made it
    rl_created,   \* observer: releases created for the version
    rl_assets,    \* names of the assets of the release
    rl_kv,        \* names whose checksum is in the store
    rl_uploads,   \* observer: uploads accepted, by name
    rl_puts,      \* observer: checksums the store has taken, by name
    rl_pc,        \* by build: "check", "get", "create", "look", "put", "hash",
                  \* "done", "exit1"
    rl_got,       \* by build: the release get_or_create_release returned, "none" before
    rl_i,         \* by build: the file the second loop is at
    rl_why        \* by build: what ended it with exit(1): "none", "version", "tag",
                  \* "upload", "checksum"

relVars == <<rl_tags, rl_dir, rl_release, rl_created, rl_assets, rl_kv, rl_uploads, rl_puts,
             rl_pc, rl_got, rl_i, rl_why>>

\* github_message.py: the release message under construction.  A string is
\* the sequence of its pieces; a piece is a character of a name or one of the
\* literals the function writes.
VARIABLES
    m_msg,        \* msg
    m_applied,    \* observer: the names and checksums update_or_add_message was given
    m_before,     \* observer: msg before the last call
    m_re,         \* observer: the last call repeated an earlier one
    m_steps       \* observer: calls so far

msgVars == <<m_msg, m_applied, m_before, m_re, m_steps>>

toolVars == <<dumpVars, sendVars, cfgVars, relVars, msgVars>>

newVars == <<startVars, termVars, reconVars, logVars, seqVars, toolVars>>

vars == <<waitVars, lifeVars, newVars>>

\* No launch is followed.
StartIdle ==
    /\ st_pc = "done"
    /\ st_api = "background"
    /\ st_check = TRUE
    /\ st_child = "runs"
    /\ st_result = "none"

\* No log verifier is followed.
LogIdle ==
    /\ l_fn = "json"
    /\ l_pc = "done"
    /\ f_len = 0
    /\ f_match = 0
    /\ f_first = "none"
    /\ f_bad = 0
    /\ f_eof = TRUE
    /\ f_again = "none"
    /\ d_files = 0
    /\ d_default = FALSE
    /\ d_cur_size = 0
    /\ d_rot_size = 0
    /\ l_batches = 0
    /\ l_after_two = 0
    /\ l_read = 0
    /\ l_result = "none"
    /\ l_check = "none"

\* No sequence of tests is followed.
SeqIdle ==
    /\ q_pc = "over"
    /\ q_test = 0
    /\ q_prev_left = 0
    /\ q_cur = "absent"
    /\ q_leave = "none"
    /\ q_capture = FALSE
    /\ q_alive_max = 0

\* wait_tunnel_ready's except clause has not run.
DumpIdle ==
    /\ cfd_logs = "unset"
    /\ caller_exc = NoExc

\* No call of send_request has ended.
NoCall == [gets |-> 0, statuses |-> 0, ret |-> "none", status |-> 0]

\* No send_requests is followed.
SendIdle ==
    /\ sd_pc = "done"
    /\ sd_require_ok = TRUE
    /\ sd_count = 0
    /\ sd_calls = 0
    /\ sd_attempt = 1
    /\ sd_gets = 0
    /\ sd_errors = 0
    /\ sd_non200 = 0
    /\ sd_last = NoCall
    /\ sd_outcome = "returned"
    /\ sd_exc = NoExc

\* The dict without keys.
EmptyDict == [k \in {} |-> "None"]

\* No config object is followed.
CfgIdle ==
    /\ cf_pc = "built"
    /\ cf_class = "QuickTunnelConfig"
    /\ cf_additional = EmptyDict
    /\ cf_before = EmptyDict
    /\ cf_full = EmptyDict

\* The builds that run github_release.py.
Builds == {"b1", "b2"}

\* The names the files of the directory can have.
AssetNames == {"f1", "f2", "f3"}

\* No release run is followed.
RelIdle ==
    /\ rl_tags = <<>>
    /\ rl_dir = <<>>
    /\ rl_release = "none"
    /\ rl_created = 0
    /\ rl_assets = {}
    /\ rl_kv = {}
    /\ rl_uploads = [n \in AssetNames |-> 0]
    /\ rl_puts = [n \in AssetNames |-> 0]
    /\ rl_pc = [b \in Builds |-> "done"]
    /\ rl_got = [b \in Builds |-> "none"]
    /\ rl_i = [b \in Builds |-> 1]
    /\ rl_why = [b \in Builds |-> "none"]

\* No release message is followed.
MsgIdle ==
    /\ m_msg = <<>>
    /\ m_applied = {}
    /\ m_before = <<>>
    /\ m_re = FALSE
    /\ m_steps = 0

ToolIdle ==
    /\ DumpIdle
    /\ SendIdle
    /\ CfgIdle
    /\ RelIdle
    /\ MsgIdle

\* No repetition of assert_reconnect has ended yet.
NoTime == -1

\* No check after a directive has been made in this run.
NoReconCheck ==
    [k |-> 0, required |-> 0, waited |-> FALSE, resp |-> ConnectionError, ok |-> TRUE]

\* No reconnect test is followed.
ReconIdle ==
    /\ r_pc = "done"
    /\ r_repeat = 1
    /\ r_rep = 0
    /\ r_i = 0
    /\ r_directives = 0
    /\ r_ready_n = FALSE
    /\ r_zero = FALSE
    /\ r_clock = 0
    /\ r_reobserved = NoTime
    /\ r_runs = 0
    /\ r_last = NoReconCheck

\* within_grace_period left no duration: the context was not left (or not entered).
NoDuration == -1

\* No termination scenario is followed.
TermIdle ==
    /\ t_test = "no_connection"
    /\ t_pc = "done"
    /\ t_child = "exited"
    /\ t_ready = FALSE
    /\ t_body_signalled = FALSE
    /\ t_signalled = {}
    /\ t_thread = "none"
    /\ t_lines = 0
    /\ t_saw502 = FALSE
    /\ t_in_grace = FALSE
    /\ t_elapsed = 0
    /\ t_duration = NoDuration
    /\ t_joined = "no"
    /\ t_exc = "none"
    /\ t_verdict = "running"
    /\ t_established = FALSE
    /\ t_sig_established = FALSE
    /\ t_block_exc = "none"
    /\ t_attempt = 1

\* ------------------------------------------------------------------------
\* The retry policy of @retry(stop_max_attempt_number=MAX_RETRIES, ...).
stop_max_attempt_number(attempt_number) == attempt_number >= MAX_RETRIES

\* retry_on_exception: the default retries on every exception.
retry_only_assertions(e) == e.type = "AssertionError"
retry_on_exception(e) == TRUE

\* send_request, one attempt: the exception it raises, or NoExc.
send_request_always_ok(url, resp, require_ok) ==
    IF resp.kind # "Response" THEN RequestException(url, resp)
    ELSE IF resp.status # 200 THEN StatusAssertion(url, resp)
    ELSE NoExc
send_request_attempt(url, resp, require_ok) ==
    IF resp.kind # "Response" THEN RequestException(url, resp)
    ELSE IF require_ok /\ resp.status # 200 THEN StatusAssertion(url, resp)
    ELSE NoExc

\* assert ready_connections >= require_min_connections
enough_reversed(ready_connections, min) == ready_connections <= min
enough_strict(ready_connections, min) == ready_connections > min
enough_connections(ready_connections, min) == ready_connections >= min

\* The state after an attempt of inner_wait_tunnel_ready raised e.
FailOuter(e) ==
    IF retry_on_exception(e) /\ ~stop_max_attempt_number(attempt_outer)
    THEN [pc |-> "get_ready", outer |-> attempt_outer + 1, inner |-> 1,
          outcome |-> "running", exc |-> NoExc]
    ELSE [pc |-> "done", outer |-> attempt_outer, inner |-> attempt_inner,
          outcome |-> "raised", exc |-> e]

\* The state after an attempt of send_request raised e.
FailInner(e) ==
    IF retry_on_exception(e) /\ ~stop_max_attempt_number(attempt_inner)
    THEN [pc |-> w_pc, outer |-> attempt_outer, inner |-> attempt_inner + 1,
          outcome |-> "running", exc |-> NoExc]
    ELSE FailOuter(e)

\* The state after the readiness request of this attempt came back with resp.
AfterReady(resp) ==
    LET e == send_request_attempt("ready", resp, TRUE) IN
    IF e # NoExc THEN FailInner(e)
    ELSE IF ~enough_connections(resp.readyConnections, require_min_connections)
    THEN FailOuter(ConnectionsAssertion(resp, require_min_connections))
    ELSE IF tunnel_url # "None"
    THEN [pc |-> "get_tunnel", outer |-> attempt_outer, inner |-> 1,
          outcome |-> "running", exc |-> NoExc]
    ELSE [pc |-> "done", outer |-> attempt_outer, inner |-> attempt_inner,
          outcome |-> "returned", exc |-> NoExc]

\* The state after the tunnel URL request of this attempt came back with resp.
AfterTunnel(resp) ==
    LET e == send_request_attempt("tunnel", resp, TRUE) IN
    IF e # NoExc THEN FailInner(e)
    ELSE [pc |-> "done", outer |-> attempt_outer, inner |-> attempt_inner,
          outcome |-> "returned", exc |-> NoExc]

\* What cfd_logs can be: None, or a path that is a file, an empty directory, a
\* directory with a log file in it, or nothing at all.
CfdLogs == {"None", "file", "empty_dir", "dir", "missing"}

FileNotFoundError ==
    [type |-> "FileNotFoundError", check |-> "none", url |-> "none", status |-> 0,
     body |-> NoBody]

\* _log_cloudflared_logs(cfd_logs): the exception it raises, or NoExc.  A
\* directory without files returns early; every other path is opened.
log_cloudflared_logs(logs) ==
    IF logs = "missing" THEN FileNotFoundError ELSE NoExc

\* except Exception as e: the exception that leaves wait_tunnel_ready.
wait_tunnel_ready_except(e, logs) ==
    IF logs # "None" /\ log_cloudflared_logs(logs) # NoExc
    THEN log_cloudflared_logs(logs)
    ELSE e

\* What the readiness endpoint may answer to the next GET.
EndpointAnswers ==
    IF refuseLeft > 0 THEN {ConnectionError}
    ELSE IF endpoint = "steady" THEN {steadyResp}
    ELSE ReadyResponses

TunnelAnswers ==
    IF tunnelMode = "up" THEN {Response(200, 0)} ELSE TunnelResponses

ReadyEnough(resp) ==
    /\ resp.kind = "Response"
    /\ resp.status = 200
    /\ resp.readyConnections >= require_min_connections

NoCheck == [kind |-> "none", observed |-> 0, expected |-> 0, passed |-> TRUE]

\* No scope is open and no check_tunnel_not_connected call is under way.
LifeIdle ==
    /\ scope_kind = "background"
    /\ capture_output = FALSE
    /\ s_pc = "idle"
    /\ b_pc = "free"
    /\ cfd = "None"
    /\ proc = "absent"
    /\ leave = "none"
    /\ terminate_called = FALSE
    /\ terminators = {}
    /\ body_signalled = FALSE
    /\ kill_sent = FALSE
    /\ polls = 0
    /\ stdout_read = FALSE
    /\ stderr_read = FALSE
    /\ c_pc = "idle"
    /\ c_attempt = 1
    /\ c_outcome = "running"
    /\ c_calls = 0
    /\ c_gets = 0
    /\ c_sawNotReady = FALSE
    /\ c_allReady = TRUE
    /\ c_afterExit = FALSE
    /\ c_callsAfterExit = 0
    /\ c_okAfterExit = 0
    /\ lastCheck = NoCheck

\* One call of wait_tunnel_ready.  require_min_connections is what the callers
\* pass: the default 1, or a count that is at least 1 (test_reconnect.py:48
\* calls it only if expect_connections > 0).
InitWait ==
    /\ w_pc = "get_ready"
    /\ tunnel_url \in {"None", "url"}
    /\ require_min_connections \in 1..MaxConns
    /\ attempt_outer = 1
    /\ attempt_inner = 1
    /\ outcome = "running"
    /\ exc = NoExc
    /\ refuseInit \in 0..MaxRefuse
    /\ refuseLeft = refuseInit
    /\ endpoint \in {"steady", "any"}
    /\ steadyResp \in {Response(s, n) : s \in {200, 503}, n \in 0..MaxConns}
    /\ endpoint = "any" => steadyResp = Response(200, 0)
    /\ tunnelMode \in {"up", "any"}
    /\ tunnel_url = "None" => tunnelMode = "up"
    /\ readyGets = 0
    /\ lastSnapshot = NoSnapshot
    /\ readyOkAttempt = 0
    /\ tunnelOkAttempt = 0
    /\ tunnelUnchecked = FALSE
    /\ LifeIdle
    /\ StartIdle
    /\ TermIdle
    /\ ReconIdle
    /\ LogIdle
    /\ SeqIdle
    /\ ToolIdle

\* send_request(s, metrics_url, True), one GET, and what follows it.
ReadyGet ==
    /\ w_pc = "get_ready"
    /\ \E resp \in EndpointAnswers :
        LET n == AfterReady(resp) IN
        /\ w_pc' = n.pc
        /\ attempt_outer' = n.outer
        /\ attempt_inner' = n.inner
        /\ outcome' = n.outcome
        /\ exc' = n.exc
        /\ refuseLeft' = IF refuseLeft > 0 THEN refuseLeft - 1 ELSE 0
        /\ readyGets' = readyGets + 1
        /\ lastSnapshot' = IF resp.kind = "Response" THEN resp ELSE lastSnapshot
        /\ readyOkAttempt' = IF ReadyEnough(resp) THEN attempt_outer ELSE readyOkAttempt
    /\ UNCHANGED <<tunnel_url, require_min_connections, refuseInit, endpoint, steadyResp,
                   tunnelMode, tunnelOkAttempt, tunnelUnchecked>>
    /\ UNCHANGED <<lifeVars, newVars>>

\* send_request(s, tunnel_url, True), one GET, and what follows it.
TunnelGet ==
    /\ w_pc = "get_tunnel"
    /\ \E resp \in TunnelAnswers :
        LET n == AfterTunnel(resp) IN
        /\ w_pc' = n.pc
        /\ attempt_outer' = n.outer
        /\ attempt_inner' = n.inner
        /\ outcome' = n.outcome
        /\ exc' = n.exc
        /\ tunnelOkAttempt' = IF resp.kind = "Response" /\ resp.status = 200
                              THEN attempt_outer ELSE tunnelOkAttempt
    /\ tunnelUnchecked' = (tunnelUnchecked \/ readyOkAttempt # attempt_outer)
    /\ UNCHANGED <<tunnel_url, require_min_connections, refuseInit, refuseLeft, endpoint,
                   steadyResp, tunnelMode, readyGets, lastSnapshot, readyOkAttempt>>
    /\ UNCHANGED <<lifeVars, newVars>>

\* wait_tunnel_ready: except Exception as e, after inner_wait_tunnel_ready
\* has raised for the last time.
WaitExcept ==
    /\ w_pc = "done"
    /\ outcome = "raised"
    /\ cfd_logs = "unset"
    /\ \E logs \in CfdLogs :
        /\ cfd_logs' = logs
        /\ caller_exc' = wait_tunnel_ready_except(exc, logs)
    /\ UNCHANGED <<waitVars, lifeVars, startVars, termVars, reconVars, logVars, seqVars,
                   sendVars, cfgVars, relVars, msgVars>>

NextWait == ReadyGet \/ TunnelGet \/ WaitExcept

SpecWait == InitWait /\ [][NextWait]_vars

\* ------------------------------------------------------------------------
\* SpecLife: one scope around a child process, run_cloudflared_background
\* (with start_cloudflared(..., new_process=True)) or CloudflaredCli, with a
\* body that may signal the child (terminate_by_signal), call
\* check_tunnel_not_connected and compare connection counts
\* (expect_address_connections), and the child, which may exit at any time.

\* Calls of check_tunnel_not_connected one body makes in the model.
MaxCalls == 3
\* Largest number of connections the tunnel info reports in the model.
MaxRegistered == 5

\* wait_for_terminate(opened_subprocess, attempts=10, poll_interval=1)
attempts == 10
\* expect_address_connections: len(conns) == 4
expected_conns == 4
\* conns == None
NoConns == -1

\* While the child runs the endpoint may answer anything; once it has exited
\* nothing listens on the metrics port.
LifeEndpointAnswers ==
    IF proc = "running" THEN ReadyResponses ELSE {ConnectionError}

ZeroAssertion(resp) ==
    [type |-> "AssertionError", check |-> "zero", url |-> "ready",
     status |-> 0, body |-> NoBody]

\* except requests.exceptions.ConnectionError
except_nothing(resp) == FALSE
except_ConnectionError(resp) == resp.kind = "ConnectionError"

\* assert resp.json()["readyConnections"] == 0
any_connections(n) == TRUE
no_connections(n) == n = 0

\* check_tunnel_not_connected, one attempt: the exception it raises, or NoExc.
check_tunnel_not_connected_attempt(resp) ==
    IF except_ConnectionError(resp) THEN NoExc
    ELSE IF resp.kind # "Response" THEN RequestException("ready", resp)
    ELSE IF resp.status # 503 THEN StatusAssertion("ready", resp)
    ELSE IF ~no_connections(resp.readyConnections) THEN ZeroAssertion(resp)
    ELSE NoExc

\* assert conns == None or len(conns) == 4
conns_check(conns) == conns = NoConns \/ conns = expected_conns

\* Where the cleanup of the scope starts.
cleanup_entry == IF scope_kind = "background" THEN "finally" ELSE "cli_terminate"

\* run_cloudflared_background after cfd.terminate(): read stderr or leave.
after_terminate_no_read(capture) == "exited"
after_terminate(capture) == IF capture THEN "read_stderr" ELSE "exited"

\* Popen.terminate(), Popen.send_signal(), Popen.kill(): the signal reaches the
\* child only while it runs (send_signal polls first and skips a dead child).
Delivered(who) == IF proc = "running" THEN terminators \cup {who} ELSE terminators

InitLife ==
    /\ scope_kind \in {"background", "cli"}
    /\ capture_output \in BOOLEAN
    /\ scope_kind = "cli" => capture_output = TRUE
    /\ s_pc = "enter"
    /\ b_pc = "free"
    /\ cfd = "None"
    /\ proc = "absent"
    /\ leave = "none"
    /\ terminate_called = FALSE
    /\ terminators = {}
    /\ body_signalled = FALSE
    /\ kill_sent = FALSE
    /\ polls = 0
    /\ stdout_read = FALSE
    /\ stderr_read = FALSE
    /\ c_pc = "idle"
    /\ c_attempt = 1
    /\ c_outcome = "running"
    /\ c_calls = 0
    /\ c_gets = 0
    /\ c_sawNotReady = FALSE
    /\ c_allReady = TRUE
    /\ c_afterExit = FALSE
    /\ c_callsAfterExit = 0
    /\ c_okAfterExit = 0
    /\ lastCheck = NoCheck
    \* no wait_tunnel_ready call is followed here
    /\ w_pc = "done"
    /\ tunnel_url = "None"
    /\ require_min_connections = 1
    /\ attempt_outer = 1
    /\ attempt_inner = 1
    /\ outcome = "running"
    /\ exc = NoExc
    /\ refuseInit = 0
    /\ refuseLeft = 0
    /\ endpoint = "any"
    /\ steadyResp = Response(200, 0)
    /\ tunnelMode = "up"
    /\ readyGets = 0
    /\ lastSnapshot = NoSnapshot
    /\ readyOkAttempt = 0
    /\ tunnelOkAttempt = 0
    /\ tunnelUnchecked = FALSE
    /\ StartIdle
    /\ TermIdle
    /\ ReconIdle
    /\ LogIdle
    /\ SeqIdle
    /\ ToolIdle

\* subprocess.Popen(cmd, ...) starts the child and the body is entered.
PopenOk ==
    /\ s_pc = "enter"
    /\ cfd' = "Popen"
    /\ proc' = "running"
    /\ s_pc' = "body"
    /\ UNCHANGED <<scope_kind, capture_output, b_pc, leave, terminate_called, terminators,
                   body_signalled, kill_sent, polls, stdout_read, stderr_read>>
    /\ UNCHANGED <<ctncVars, lastCheck, waitVars, newVars>>

\* subprocess.Popen raises (the binary is missing): cfd stays None.  In
\* run_cloudflared_background the finally block runs; CloudflaredCli.__enter__
\* raises and __exit__ is not called.
PopenFails ==
    /\ s_pc = "enter"
    /\ leave' = "launch_failure"
    /\ s_pc' = IF scope_kind = "background" THEN "finally" ELSE "exited"
    /\ UNCHANGED <<scope_kind, capture_output, b_pc, cfd, proc, terminate_called, terminators,
                   body_signalled, kill_sent, polls, stdout_read, stderr_read>>
    /\ UNCHANGED <<ctncVars, lastCheck, waitVars, newVars>>

\* The child exits (on a signal, or by itself).
ProcExit ==
    /\ proc = "running"
    /\ proc' = "exited"
    /\ UNCHANGED <<scope_kind, capture_output, s_pc, b_pc, cfd, leave, terminate_called,
                   terminators, body_signalled, kill_sent, polls, stdout_read, stderr_read>>
    /\ UNCHANGED <<ctncVars, lastCheck, waitVars, newVars>>

\* terminate_by_signal: cloudflared.send_signal(sig)
BodySendSignal ==
    /\ s_pc = "body"
    /\ b_pc = "free"
    /\ c_pc = "idle"
    /\ scope_kind = "background"
    /\ ~body_signalled
    /\ body_signalled' = TRUE
    /\ terminators' = Delivered("body")
    /\ b_pc' = "check"
    /\ UNCHANGED <<scope_kind, capture_output, s_pc, cfd, proc, leave, terminate_called,
                   kill_sent, polls, stdout_read, stderr_read>>
    /\ UNCHANGED <<ctncVars, lastCheck, waitVars, newVars>>

\* The body calls check_tunnel_not_connected().
CtncCall ==
    /\ s_pc = "body"
    /\ b_pc \in {"free", "check"}
    /\ c_pc = "idle"
    /\ scope_kind = "background"
    /\ c_calls < MaxCalls
    /\ c_pc' = "get"
    /\ c_attempt' = 1
    /\ c_outcome' = "running"
    /\ c_calls' = c_calls + 1
    /\ c_gets' = 0
    /\ c_sawNotReady' = FALSE
    /\ c_allReady' = TRUE
    /\ c_afterExit' = (proc = "exited")
    /\ c_callsAfterExit' = IF proc = "exited" THEN c_callsAfterExit + 1 ELSE c_callsAfterExit
    /\ UNCHANGED <<c_okAfterExit, scopeVars, lastCheck, waitVars, newVars>>

\* One attempt of check_tunnel_not_connected: requests.get and the assertions.
CtncGet ==
    /\ c_pc = "get"
    /\ \E resp \in LifeEndpointAnswers :
        LET e == check_tunnel_not_connected_attempt(resp)
            final == e = NoExc \/ stop_max_attempt_number(c_attempt)
        IN
        /\ c_gets' = c_gets + 1
        /\ c_pc' = IF final THEN "done" ELSE "get"
        /\ c_outcome' = IF e = NoExc THEN "returned"
                        ELSE IF final THEN "raised" ELSE "running"
        /\ c_attempt' = IF final THEN c_attempt ELSE c_attempt + 1
        /\ c_sawNotReady' = \/ c_sawNotReady
                            \/ resp.kind = "ConnectionError"
                            \/ /\ resp.kind = "Response"
                               /\ resp.status = 503
                               /\ resp.readyConnections = 0
        /\ c_allReady' = /\ c_allReady
                         /\ resp.kind = "Response"
                         /\ (resp.status = 200 \/ resp.readyConnections > 0)
        /\ c_okAfterExit' = IF c_afterExit /\ e = NoExc /\ c_gets = 0
                            THEN c_okAfterExit + 1 ELSE c_okAfterExit
        /\ lastCheck' = IF resp.kind = "Response" /\ resp.status = 503
                        THEN [kind |-> "not_connected", observed |-> resp.readyConnections,
                              expected |-> 0, passed |-> (e = NoExc)]
                        ELSE lastCheck
    /\ UNCHANGED <<c_calls, c_afterExit, c_callsAfterExit, scopeVars, waitVars, newVars>>

\* check_tunnel_not_connected is over: the body goes on, or its exception
\* leaves the body.
CtncDone ==
    /\ c_pc = "done"
    /\ c_pc' = "idle"
    /\ IF c_outcome = "returned"
       THEN /\ b_pc' = IF b_pc = "check" THEN "wait" ELSE "free"
            /\ UNCHANGED <<s_pc, leave>>
       ELSE /\ leave' = "exception"
            /\ s_pc' = cleanup_entry
            /\ UNCHANGED b_pc
    /\ UNCHANGED <<scope_kind, capture_output, cfd, proc, terminate_called, terminators,
                   body_signalled, kill_sent, polls, stdout_read, stderr_read>>
    /\ UNCHANGED <<c_attempt, c_outcome, c_calls, c_gets, c_sawNotReady, c_allReady,
                   c_afterExit, c_callsAfterExit, c_okAfterExit, lastCheck, waitVars, newVars>>

\* terminate_by_signal: cloudflared.wait() returns once the child has exited.
BodyWait ==
    /\ s_pc = "body"
    /\ b_pc = "wait"
    /\ proc = "exited"
    /\ b_pc' = "free"
    /\ UNCHANGED <<scope_kind, capture_output, s_pc, cfd, proc, leave, terminate_called,
                   terminators, body_signalled, kill_sent, polls, stdout_read, stderr_read>>
    /\ UNCHANGED <<ctncVars, lastCheck, waitVars, newVars>>

\* expect_address_connections: the tunnel info reports conns for this
\* connector; a failed assertion leaves the body, and so does iterating None.
BodyExpectConns ==
    /\ s_pc = "body"
    /\ b_pc = "free"
    /\ scope_kind = "cli"
    /\ lastCheck = NoCheck
    /\ \E conns \in {NoConns} \cup (0..MaxRegistered) :
        /\ lastCheck' = IF conns = NoConns THEN lastCheck
                        ELSE [kind |-> "registered", observed |-> conns,
                              expected |-> expected_conns, passed |-> conns_check(conns)]
        /\ IF conns_check(conns) /\ conns # NoConns
           THEN UNCHANGED <<s_pc, leave>>
           ELSE /\ leave' = "exception"
                /\ s_pc' = cleanup_entry
    /\ UNCHANGED <<scope_kind, capture_output, b_pc, cfd, proc, terminate_called, terminators,
                   body_signalled, kill_sent, polls, stdout_read, stderr_read>>
    /\ UNCHANGED <<ctncVars, waitVars, newVars>>

\* The body ends normally.
BodyReturn ==
    /\ s_pc = "body"
    /\ b_pc = "free"
    /\ c_pc = "idle"
    /\ leave' = "normal"
    /\ s_pc' = cleanup_entry
    /\ UNCHANGED <<scope_kind, capture_output, b_pc, cfd, proc, terminate_called, terminators,
                   body_signalled, kill_sent, polls, stdout_read, stderr_read>>
    /\ UNCHANGED <<ctncVars, lastCheck, waitVars, newVars>>

\* The body raises (a failed wait_tunnel_ready, a failed assertion, a timeout).
BodyRaise ==
    /\ s_pc = "body"
    /\ b_pc = "free"
    /\ c_pc = "idle"
    /\ leave' = "exception"
    /\ s_pc' = cleanup_entry
    /\ UNCHANGED <<scope_kind, capture_output, b_pc, cfd, proc, terminate_called, terminators,
                   body_signalled, kill_sent, polls, stdout_read, stderr_read>>
    /\ UNCHANGED <<ctncVars, lastCheck, waitVars, newVars>>

\* run_cloudflared_background, finally: if cfd: cfd.terminate()
FinallyTerminate ==
    /\ s_pc = "finally"
    /\ IF cfd # "None"
       THEN /\ terminate_called' = TRUE
            /\ terminators' = Delivered("scope")
            /\ s_pc' = after_terminate(capture_output)
       ELSE /\ s_pc' = "exited"
            /\ UNCHANGED <<terminate_called, terminators>>
    /\ UNCHANGED <<scope_kind, capture_output, b_pc, cfd, proc, leave, body_signalled,
                   kill_sent, polls, stdout_read, stderr_read>>
    /\ UNCHANGED <<ctncVars, lastCheck, waitVars, newVars>>

\* run_cloudflared_background, finally: cfd.stderr.read() returns at the end of
\* the stream, which the child's exit brings.
FinallyReadStderr ==
    /\ s_pc = "read_stderr"
    /\ proc = "exited"
    /\ stderr_read' = TRUE
    /\ s_pc' = "exited"
    /\ UNCHANGED <<scope_kind, capture_output, b_pc, cfd, proc, leave, terminate_called,
                   terminators, body_signalled, kill_sent, polls, stdout_read>>
    /\ UNCHANGED <<ctncVars, lastCheck, waitVars, newVars>>

\* terminate_gracefully: process.terminate()
CliTerminate ==
    /\ s_pc = "cli_terminate"
    /\ terminate_called' = TRUE
    /\ terminators' = Delivered("scope")
    /\ polls' = 0
    /\ s_pc' = "cli_poll"
    /\ UNCHANGED <<scope_kind, capture_output, b_pc, cfd, proc, leave, body_signalled,
                   kill_sent, stdout_read, stderr_read>>
    /\ UNCHANGED <<ctncVars, lastCheck, waitVars, newVars>>

\* wait_for_terminate: for _ in range(attempts) is over after n turns.
range_short(n) == n >= attempts - 1
range_over(n) == n >= attempts

\* _is_process_stopped: process.poll() is not None
is_process_stopped(p) == p = "exited"

\* wait_for_terminate: one turn of the loop; it returns True when the poll
\* sees the child stopped and False after `attempts` polls that did not.
CliPoll ==
    /\ s_pc = "cli_poll"
    /\ IF is_process_stopped(proc)
       THEN /\ s_pc' = "cli_read"
            /\ UNCHANGED polls
       ELSE /\ polls' = polls + 1
            /\ s_pc' = IF range_over(polls + 1) THEN "cli_kill" ELSE "cli_poll"
    /\ UNCHANGED <<scope_kind, capture_output, b_pc, cfd, proc, leave, terminate_called,
                   terminators, body_signalled, kill_sent, stdout_read, stderr_read>>
    /\ UNCHANGED <<ctncVars, lastCheck, waitVars, newVars>>

\* terminate_gracefully: process.kill()
CliKill ==
    /\ s_pc = "cli_kill"
    /\ kill_sent' = TRUE
    /\ terminators' = Delivered("scope")
    /\ s_pc' = "cli_kill_read"
    /\ UNCHANGED <<scope_kind, capture_output, b_pc, cfd, proc, leave, terminate_called,
                   body_signalled, polls, stdout_read, stderr_read>>
    /\ UNCHANGED <<ctncVars, lastCheck, waitVars, newVars>>

\* terminate_gracefully: the warning reads stdout and stderr to their ends.
CliKillRead ==
    /\ s_pc = "cli_kill_read"
    /\ proc = "exited"
    /\ stdout_read' = TRUE
    /\ stderr_read' = TRUE
    /\ s_pc' = "cli_read"
    /\ UNCHANGED <<scope_kind, capture_output, b_pc, cfd, proc, leave, terminate_called,
                   terminators, body_signalled, kill_sent, polls>>
    /\ UNCHANGED <<ctncVars, lastCheck, waitVars, newVars>>

\* CloudflaredCli.__exit__: self.process.stderr.read()
CliReadStderr ==
    /\ s_pc = "cli_read"
    /\ proc = "exited"
    /\ stderr_read' = TRUE
    /\ s_pc' = "exited"
    /\ UNCHANGED <<scope_kind, capture_output, b_pc, cfd, proc, leave, terminate_called,
                   terminators, body_signalled, kill_sent, polls, stdout_read>>
    /\ UNCHANGED <<ctncVars, lastCheck, waitVars, newVars>>

NextLife ==
    \/ PopenOk \/ PopenFails \/ ProcExit
    \/ BodySendSignal \/ CtncCall \/ CtncGet \/ CtncDone \/ BodyWait
    \/ BodyExpectConns \/ BodyReturn \/ BodyRaise
    \/ FinallyTerminate \/ FinallyReadStderr
    \/ CliTerminate \/ CliPoll \/ CliKill \/ CliKillRead \/ CliReadStderr

SpecLife == InitLife /\ [][NextLife]_vars

\* ------------------------------------------------------------------------
\* SpecStart: one launch of the binary, by run_subprocess (CloudflaredCli's
\* commands), by start_cloudflared in the foreground (subprocess.run) or by
\* start_cloudflared(new_process=True), whose body then calls
\* wait_tunnel_ready(require_min_connections=1).

\* subprocess.run(cmd, check=..., timeout=...): what it raises, "returned", or
\* "blocked" when the child never exits and no timeout is given.
subprocess_run(child, check, has_timeout) ==
    IF child = "missing" THEN "FileNotFoundError"
    ELSE IF child = "runs" THEN (IF has_timeout THEN "TimeoutExpired" ELSE "blocked")
    ELSE IF child = "exit_nonzero" /\ check THEN "CalledProcessError"
    ELSE "returned"

\* run_subprocess: except CalledProcessError raises SubprocessError, except
\* TimeoutExpired raises the same exception again.
run_subprocess_one_kind(child, check) ==
    LET r == subprocess_run(child, check, TRUE) IN
    IF r \in {"CalledProcessError", "TimeoutExpired"} THEN "SubprocessError" ELSE r
run_subprocess(child, check) ==
    LET r == subprocess_run(child, check, TRUE) IN
    IF r = "CalledProcessError" THEN "SubprocessError" ELSE r

\* start_cloudflared, new_process=False:
\* subprocess.run(cmd, check=expect_success, capture_output=capture_output)
start_foreground(child, expect_success) == subprocess_run(child, expect_success, FALSE)

\* The metrics endpoint of a launched child: a child that exited at once
\* refuses every connection, a running one may answer anything.
ChildEndpoint(child) == IF child = "runs" THEN "any" ELSE "steady"
ChildSteadyResp(child) == IF child = "runs" THEN Response(200, 0) ELSE ConnectionError

InitStart ==
    /\ st_pc = "call"
    /\ st_api \in {"run_subprocess", "foreground", "background"}
    /\ st_check \in BOOLEAN
    /\ st_api = "background" => st_check = FALSE
    /\ st_child \in {"missing", "exit_nonzero", "exit_zero", "runs"}
    /\ st_result = "none"
    /\ w_pc = "idle"
    /\ tunnel_url = "None"
    /\ require_min_connections = 1
    /\ attempt_outer = 1
    /\ attempt_inner = 1
    /\ outcome = "running"
    /\ exc = NoExc
    /\ refuseInit = 0
    /\ refuseLeft = 0
    /\ endpoint = ChildEndpoint(st_child)
    /\ steadyResp = ChildSteadyResp(st_child)
    /\ tunnelMode = "up"
    /\ readyGets = 0
    /\ lastSnapshot = NoSnapshot
    /\ readyOkAttempt = 0
    /\ tunnelOkAttempt = 0
    /\ tunnelUnchecked = FALSE
    /\ LifeIdle
    /\ TermIdle
    /\ ReconIdle
    /\ LogIdle
    /\ SeqIdle
    /\ ToolIdle

\* CloudflaredCli._run_command: run_subprocess(cmd, ..., check=needs_to_pass,
\* capture_output=True, timeout=15)
RunSubprocess ==
    /\ st_pc = "call"
    /\ st_api = "run_subprocess"
    /\ st_result' = run_subprocess(st_child, st_check)
    /\ st_pc' = "done"
    /\ UNCHANGED <<st_api, st_check, st_child, waitVars, lifeVars, termVars, reconVars, logVars, seqVars, toolVars>>

\* start_cloudflared(..., new_process=False): subprocess.run returns or raises
\* once the child has exited; there is no timeout.
StartForeground ==
    /\ st_pc = "call"
    /\ st_api = "foreground"
    /\ start_foreground(st_child, st_check) # "blocked"
    /\ st_result' = start_foreground(st_child, st_check)
    /\ st_pc' = "done"
    /\ UNCHANGED <<st_api, st_check, st_child, waitVars, lifeVars, termVars, reconVars, logVars, seqVars, toolVars>>

\* start_cloudflared(..., new_process=True): run_cloudflared_background.  Popen
\* raises for a missing binary; otherwise the body is entered, whatever the
\* child does next, and calls wait_tunnel_ready.
StartBackground ==
    /\ st_pc = "call"
    /\ st_api = "background"
    /\ IF st_child = "missing"
       THEN /\ st_result' = "FileNotFoundError"
            /\ st_pc' = "done"
            /\ UNCHANGED w_pc
       ELSE /\ st_pc' = "body"
            /\ w_pc' = "get_ready"
            /\ UNCHANGED st_result
    /\ UNCHANGED <<st_api, st_check, st_child, lifeVars, termVars, reconVars, logVars, seqVars, toolVars>>
    /\ UNCHANGED <<tunnel_url, require_min_connections, attempt_outer, attempt_inner,
                   outcome, exc, refuseLeft, refuseInit, endpoint, steadyResp, tunnelMode,
                   readyGets, lastSnapshot, readyOkAttempt, tunnelOkAttempt, tunnelUnchecked>>

\* wait_tunnel_ready is over: the body goes on, or the exception of the wait
\* leaves the body and the scope.
StartBodyEnds ==
    /\ st_pc = "body"
    /\ w_pc = "done"
    /\ st_result' = IF outcome = "returned" THEN "returned" ELSE exc.type
    /\ st_pc' = "done"
    /\ UNCHANGED <<st_api, st_check, st_child, waitVars, lifeVars, termVars, reconVars, logVars, seqVars, toolVars>>

NextStart == RunSubprocess \/ StartForeground \/ StartBackground \/ ReadyGet \/ StartBodyEnds

SpecStart == InitStart /\ [][NextStart]_vars

\* ------------------------------------------------------------------------
\* SpecTerm: one run of a scenario of TestTermination (test_graceful_shutdown,
\* test_shutdown_once_no_connection, test_no_connection_shutdown) inside the
\* scope of start_cloudflared(new_process=True, capture_output=False), with
\* the thread that streams from the tunnel and the child, which may exit at
\* any time or never.  wait_tunnel_ready is taken by its result,
\* check_tunnel_not_connected by its result and the time its retries take
\* (SpecWait and SpecLife follow them GET by GET).

\* TestTermination.grace_period, TestTermination.timeout
grace_period == 5
timeout == 10

\* Longest time, in seconds, one blocking step that ends takes in the model.
MaxStep == 3
\* The clock of the model stops here.
MaxElapsed == 32

Later(e, d) == IF e + d > MaxElapsed THEN MaxElapsed ELSE e + d

\* @retry(wait_fixed=BACKOFF_SECS * 1000): the seconds slept by a call that
\* ends at its attempt number k.
retry_wait_secs(k) == (k - 1) * BACKOFF_SECS

\* requests.get(url, timeout=BACKOFF_SECS): how many of the k GETs of a call
\* can have run into the timeout, each taking BACKOFF_SECS; the last one did
\* when the call ended on a ReadTimeout, and did not otherwise.
timed_out_gets(k, last_timed_out) ==
    (IF last_timed_out THEN 1 ELSE 0)..(IF last_timed_out THEN k ELSE k - 1)

\* wait_tunnel_ready: the seconds its retry waits and its timed-out GETs can
\* take.  inner_wait_tunnel_ready is attempted up to MAX_RETRIES times with
\* BACKOFF_SECS between two attempts; an attempt calls send_request for /ready
\* and, with a tunnel_url, for that URL (calls is 1 or 2), and send_request
\* is itself attempted up to MAX_RETRIES times with BACKOFF_SECS between.
\* how is the way the call ended: "returned", or the failure of its last
\* attempt: "connections" (the assertion on readyConnections), "ReadTimeout",
\* or "request" (another failure of send_request).
wait_tunnel_ready_secs(calls, how) ==
    LET waits == MAX_RETRIES - 1
        \* an attempt that failed: from the assertion at once, to every
        \* send_request through all its attempts, all GETs but the ones that
        \* passed timed out
        failed_most == waits * calls + MAX_RETRIES * calls - (calls - 1)
        last_least == IF how \in {"returned", "connections"} THEN 0
                      ELSE IF how = "ReadTimeout" THEN waits + 1 ELSE waits
        last_most == IF how = "connections" THEN 2 * waits
                     ELSE IF how = "ReadTimeout" THEN 2 * waits * calls + 1
                     ELSE 2 * waits * calls
        before_least == IF how = "returned" THEN 0 ELSE waits
        before_most == waits + waits * failed_most
    IN {n * BACKOFF_SECS : n \in (before_least + last_least)..(before_most + last_most)}

\* stream_request: assert lines >= (self.grace_period * 2)
lines_needed == grace_period * 2

TermTests == {"graceful", "once_no_connection", "no_connection"}

\* The scenario starts in_flight_req.
uses_thread(test) == test \in {"graceful", "once_no_connection"}

\* The scenario signals the child inside with self.within_grace_period().
uses_grace(test) == test \in {"once_no_connection", "no_connection"}

\* stream_request(config, connected, early_terminate)
early_terminate(test) == test = "once_no_connection"

\* wait_eyeball_thread(in_flight_req, timeout)
join_timeout(test) == IF test = "graceful" THEN grace_period + timeout ELSE grace_period

\* Where an exception raised in the body goes: the finally of
\* within_grace_period when inside it, else the cleanup of the scope.
raise_to == IF t_in_grace THEN "grace_exit" ELSE "cleanup"

\* After wait_tunnel_ready(tunnel_url=config.get_url()): its exception leaves
\* the body.
after_wait_ready_always(ok) ==
    IF uses_thread(t_test) THEN "start_thread" ELSE "grace_enter"
after_wait_ready(ok) ==
    IF ~ok THEN "cleanup"
    ELSE IF uses_thread(t_test) THEN "start_thread" ELSE "grace_enter"

\* within_grace_period: assert duration < self.grace_period
within_grace_or_equal(duration) == duration <= grace_period
within_grace(duration) == duration < grace_period

\* within_grace_period: the exception that leaves the context when the block
\* raised block_exc ("none": it returned) and took duration seconds.  A failed
\* assertion in the finally clause takes the place of the block's exception.
grace_exit_keeps(block_exc, duration) ==
    IF block_exc # "none" \/ within_grace(duration) THEN block_exc ELSE "grace_period"
grace_exit_exc(block_exc, duration) ==
    IF within_grace(duration) THEN block_exc ELSE "grace_period"

\* No wait_tunnel_ready call is followed GET by GET.
WaitIdle ==
    /\ w_pc = "done"
    /\ tunnel_url = "None"
    /\ require_min_connections = 1
    /\ attempt_outer = 1
    /\ attempt_inner = 1
    /\ outcome = "running"
    /\ exc = NoExc
    /\ refuseInit = 0
    /\ refuseLeft = 0
    /\ endpoint = "any"
    /\ steadyResp = Response(200, 0)
    /\ tunnelMode = "up"
    /\ readyGets = 0
    /\ lastSnapshot = NoSnapshot
    /\ readyOkAttempt = 0
    /\ tunnelOkAttempt = 0
    /\ tunnelUnchecked = FALSE

InitTerm ==
    /\ t_test \in TermTests
    /\ t_pc = "wait_ready"
    /\ t_child = "running"
    /\ t_ready = FALSE
    /\ t_body_signalled = FALSE
    /\ t_signalled = {}
    /\ t_thread = "none"
    /\ t_lines = 0
    /\ t_saw502 = FALSE
    /\ t_in_grace = FALSE
    /\ t_elapsed = 0
    /\ t_duration = NoDuration
    /\ t_joined = "no"
    /\ t_exc = "none"
    /\ t_verdict = "running"
    /\ t_established = FALSE
    /\ t_sig_established = FALSE
    /\ t_block_exc = "none"
    /\ t_attempt = 1
    /\ WaitIdle
    /\ LifeIdle
    /\ StartIdle
    /\ ReconIdle
    /\ LogIdle
    /\ SeqIdle
    /\ ToolIdle

\* The child exits, on the signal or by itself.
TermChildExit ==
    /\ t_pc # "done"
    /\ t_child = "running"
    /\ t_child' = "exited"
    /\ UNCHANGED <<t_test, t_pc, t_ready, t_body_signalled, t_signalled,
                   t_thread, t_lines, t_saw502, t_in_grace, t_elapsed,
                   t_duration, t_joined, t_exc, t_verdict, t_established,
                   t_sig_established, t_block_exc,
                   t_attempt>>
    /\ UNCHANGED <<waitVars, lifeVars, startVars, reconVars, logVars, seqVars, toolVars>>

\* wait_tunnel_ready(tunnel_url=config.get_url()): it returns after it
\* observed the running child ready, or raises.
TermWaitReady ==
    /\ t_pc = "wait_ready"
    /\ \E ok \in BOOLEAN :
        /\ ok => t_child = "running"
        /\ t_ready' = ok
        /\ t_exc' = IF ok THEN "none" ELSE "wait_ready"
        /\ t_pc' = after_wait_ready(ok)
    /\ UNCHANGED <<t_test, t_child, t_body_signalled, t_signalled, t_thread,
                   t_lines, t_saw502, t_in_grace, t_elapsed, t_duration,
                   t_joined, t_verdict, t_established, t_sig_established,
                   t_block_exc,
                   t_attempt>>
    /\ UNCHANGED <<waitVars, lifeVars, startVars, reconVars, logVars, seqVars, toolVars>>

\* in_flight_req = threading.Thread(target=self.stream_request, ...);
\* in_flight_req.start()
TermStartThread ==
    /\ t_pc = "start_thread"
    /\ t_thread' = "connecting"
    /\ t_pc' = "cond_wait"
    /\ UNCHANGED <<t_test, t_child, t_ready, t_body_signalled, t_signalled,
                   t_lines, t_saw502, t_in_grace, t_elapsed, t_duration,
                   t_joined, t_exc, t_verdict, t_established,
                   t_sig_established, t_block_exc,
                   t_attempt>>
    /\ UNCHANGED <<waitVars, lifeVars, startVars, reconVars, logVars, seqVars, toolVars>>

\* stream_request: requests.get(url, timeout=5, stream=True) returns a
\* response, and connected.notifyAll() follows, or it raises.
ThreadConnect ==
    /\ t_thread = "connecting"
    /\ \E ok \in BOOLEAN :
        /\ t_thread' = IF ok THEN "streaming" ELSE "raised"
        /\ t_established' = ok
    /\ UNCHANGED <<t_test, t_pc, t_child, t_ready, t_body_signalled,
                   t_signalled, t_lines, t_saw502, t_in_grace, t_elapsed,
                   t_duration, t_joined, t_exc, t_verdict, t_sig_established,
                   t_block_exc,
                   t_attempt>>
    /\ UNCHANGED <<waitVars, lifeVars, startVars, reconVars, logVars, seqVars, toolVars>>

\* with connected: connected.wait(self.timeout) returns when notified or when
\* the timeout is over; what it returns is not looked at.
TermCondWait ==
    /\ t_pc = "cond_wait"
    /\ t_pc' = IF uses_grace(t_test) THEN "grace_enter" ELSE "send_signal"
    /\ UNCHANGED <<t_test, t_child, t_ready, t_body_signalled, t_signalled,
                   t_thread, t_lines, t_saw502, t_in_grace, t_elapsed,
                   t_duration, t_joined, t_exc, t_verdict, t_established,
                   t_sig_established, t_block_exc,
                   t_attempt>>
    /\ UNCHANGED <<waitVars, lifeVars, startVars, reconVars, logVars, seqVars, toolVars>>

\* within_grace_period: start = time.time()
TermGraceEnter ==
    /\ t_pc = "grace_enter"
    /\ t_in_grace' = TRUE
    /\ t_elapsed' = 0
    /\ t_pc' = "send_signal"
    /\ UNCHANGED <<t_test, t_child, t_ready, t_body_signalled, t_signalled,
                   t_thread, t_lines, t_saw502, t_duration, t_joined, t_exc,
                   t_verdict, t_established, t_sig_established, t_block_exc,
                   t_attempt>>
    /\ UNCHANGED <<waitVars, lifeVars, startVars, reconVars, logVars, seqVars, toolVars>>

\* terminate_by_signal: cloudflared.send_signal(sig)
TermSendSignal ==
    /\ t_pc = "send_signal"
    /\ t_body_signalled' = TRUE
    /\ t_signalled' = IF t_child = "running" THEN t_signalled \cup {"body"} ELSE t_signalled
    /\ t_elapsed' = 0
    /\ t_sig_established' = t_established
    /\ t_pc' = "check"
    /\ UNCHANGED <<t_test, t_child, t_ready, t_thread, t_lines, t_saw502,
                   t_in_grace, t_duration, t_joined, t_exc, t_verdict,
                   t_established, t_block_exc,
                   t_attempt>>
    /\ UNCHANGED <<waitVars, lifeVars, startVars, reconVars, logVars, seqVars, toolVars>>

\* terminate_by_signal: one attempt of check_tunnel_not_connected(), which is
\* one GET of /ready.  The attempt returns when the answer is 503 with no
\* connection, or when the connection fails, as it does once the child has
\* exited.  Any other answer fails an assertion, and a GET that gets no answer
\* raises after its timeout of BACKOFF_SECS: @retry then sleeps BACKOFF_SECS
\* and attempts again, or raises when this was attempt MAX_RETRIES.  The
\* thread and the child move on between two attempts.
TermCheck ==
    /\ t_pc = "check"
    /\ \E ok \in BOOLEAN, timed_out \in BOOLEAN, d \in 0..MaxStep :
        LET again == ~ok /\ ~stop_max_attempt_number(t_attempt)
            get_secs == IF timed_out THEN BACKOFF_SECS ELSE d
            wait_secs == IF again THEN BACKOFF_SECS ELSE 0
        IN  /\ t_child = "exited" => ok
            /\ ok => ~timed_out
            /\ t_elapsed' = Later(t_elapsed, get_secs + wait_secs)
            /\ t_attempt' = IF again THEN t_attempt + 1 ELSE 1
            /\ t_exc' = IF ok \/ again THEN t_exc ELSE "not_connected"
            /\ t_pc' = IF ok THEN "proc_wait" ELSE IF again THEN "check" ELSE raise_to
    /\ UNCHANGED <<t_test, t_child, t_ready, t_body_signalled, t_signalled,
                   t_thread, t_lines, t_saw502, t_in_grace, t_duration,
                   t_joined, t_verdict, t_established, t_sig_established,
                   t_block_exc>>
    /\ UNCHANGED <<waitVars, lifeVars, startVars, reconVars, logVars, seqVars, toolVars>>

\* terminate_by_signal: cloudflared.wait() returns once the child has exited.
TermProcWait ==
    /\ t_pc = "proc_wait"
    /\ t_child = "exited"
    /\ \E d \in 0..MaxStep :
        t_elapsed' = Later(t_elapsed, d)
    /\ t_pc' = IF uses_thread(t_test) THEN "join" ELSE "grace_exit"
    /\ UNCHANGED <<t_test, t_child, t_ready, t_body_signalled, t_signalled,
                   t_thread, t_lines, t_saw502, t_in_grace, t_duration,
                   t_joined, t_exc, t_verdict, t_established,
                   t_sig_established, t_block_exc,
                   t_attempt>>
    /\ UNCHANGED <<waitVars, lifeVars, startVars, reconVars, logVars, seqVars, toolVars>>

\* stream_request: for line in resp.iter_lines() reads one more line that is
\* not the terminate message; lines is counted up to lines_needed, and with
\* early_terminate the thread returns at the second line.
ThreadLine ==
    /\ t_thread = "streaming"
    /\ LET lines == IF t_lines < lines_needed THEN t_lines + 1 ELSE t_lines IN
        /\ t_lines' = lines
        /\ t_thread' = IF early_terminate(t_test) /\ lines = 2 THEN "returned" ELSE "streaming"
    /\ UNCHANGED <<t_test, t_pc, t_child, t_ready, t_body_signalled,
                   t_signalled, t_saw502, t_in_grace, t_elapsed, t_duration,
                   t_joined, t_exc, t_verdict, t_established,
                   t_sig_established, t_block_exc,
                   t_attempt>>
    /\ UNCHANGED <<waitVars, lifeVars, startVars, reconVars, logVars, seqVars, toolVars>>

\* stream_request: the stream ends with the line "502 Bad Gateway" (break) or
\* without it, and the assertion on lines follows; or reading it raises.
ThreadStreamEnds ==
    /\ t_thread = "streaming"
    /\ \E how \in {"502", "eof", "error"} :
        /\ t_saw502' = (how = "502")
        /\ t_thread' = IF how # "error" /\ t_lines >= lines_needed THEN "returned" ELSE "raised"
    /\ UNCHANGED <<t_test, t_pc, t_child, t_ready, t_body_signalled,
                   t_signalled, t_lines, t_in_grace, t_elapsed, t_duration,
                   t_joined, t_exc, t_verdict, t_established,
                   t_sig_established, t_block_exc,
                   t_attempt>>
    /\ UNCHANGED <<waitVars, lifeVars, startVars, reconVars, logVars, seqVars, toolVars>>

\* wait_eyeball_thread: thread.join(timeout) returns when the thread has ended
\* or when the timeout is over.
TermJoin ==
    /\ t_pc = "join"
    /\ \/ /\ t_thread \in {"returned", "raised"}
          /\ \E d \in 0..MaxStep :
              t_elapsed' = Later(t_elapsed, d)
       \/ /\ t_thread \in {"connecting", "streaming"}
          /\ t_elapsed' = Later(t_elapsed, join_timeout(t_test))
    /\ t_pc' = "is_alive"
    /\ UNCHANGED <<t_test, t_child, t_ready, t_body_signalled, t_signalled,
                   t_thread, t_lines, t_saw502, t_in_grace, t_duration,
                   t_joined, t_exc, t_verdict, t_established,
                   t_sig_established, t_block_exc, t_attempt>>
    /\ UNCHANGED <<waitVars, lifeVars, startVars, reconVars, logVars, seqVars, toolVars>>

\* wait_eyeball_thread: assert thread.is_alive() == False reads the thread
\* again, which may have ended since join returned.
TermIsAlive ==
    /\ t_pc = "is_alive"
    /\ t_joined' = IF t_thread \in {"returned", "raised"} THEN "dead" ELSE "alive"
    /\ t_exc' = IF t_thread \in {"returned", "raised"} THEN t_exc ELSE "thread_alive"
    /\ t_pc' = raise_to
    /\ UNCHANGED <<t_test, t_child, t_ready, t_body_signalled, t_signalled,
                   t_thread, t_lines, t_saw502, t_in_grace, t_elapsed,
                   t_duration, t_verdict, t_established, t_sig_established,
                   t_block_exc, t_attempt>>
    /\ UNCHANGED <<waitVars, lifeVars, startVars, reconVars, logVars, seqVars, toolVars>>

\* within_grace_period, finally: duration = time.time() - start;
\* assert duration < self.grace_period
TermGraceExit ==
    /\ t_pc = "grace_exit"
    /\ t_duration' = t_elapsed
    /\ t_in_grace' = FALSE
    /\ t_block_exc' = t_exc
    /\ t_exc' = grace_exit_exc(t_exc, t_elapsed)
    /\ t_pc' = "cleanup"
    /\ UNCHANGED <<t_test, t_child, t_ready, t_body_signalled, t_signalled,
                   t_thread, t_lines, t_saw502, t_elapsed, t_joined,
                   t_verdict, t_established, t_sig_established,
                   t_attempt>>
    /\ UNCHANGED <<waitVars, lifeVars, startVars, reconVars, logVars, seqVars, toolVars>>

\* run_cloudflared_background, finally: cfd.terminate(); capture_output is
\* False.  The test passes when no exception leaves the scope.
TermCleanup ==
    /\ t_pc = "cleanup"
    /\ t_signalled' = IF t_child = "running" THEN t_signalled \cup {"scope"} ELSE t_signalled
    /\ t_verdict' = IF t_exc = "none" THEN "passed" ELSE "failed"
    /\ t_pc' = "done"
    /\ UNCHANGED <<t_test, t_child, t_ready, t_body_signalled, t_thread,
                   t_lines, t_saw502, t_in_grace, t_elapsed, t_duration,
                   t_joined, t_exc, t_established, t_sig_established,
                   t_block_exc,
                   t_attempt>>
    /\ UNCHANGED <<waitVars, lifeVars, startVars, reconVars, logVars, seqVars, toolVars>>

NextTerm ==
    \/ TermChildExit \/ TermWaitReady \/ TermStartThread \/ ThreadConnect
    \/ TermCondWait \/ TermGraceEnter \/ TermSendSignal \/ TermCheck \/ TermProcWait
    \/ ThreadLine \/ ThreadStreamEnds \/ TermJoin \/ TermIsAlive \/ TermGraceExit
    \/ TermCleanup

SpecTerm == InitTerm /\ [][NextTerm]_vars

\* ------------------------------------------------------------------------
\* SpecRecon: test_named_reconnect or test_classic_reconnect, run and rerun
\* under @flaky(max_runs=3, min_passes=1).  wait_tunnel_ready and
\* check_tunnel_not_connected are taken by their result and by the time they
\* take.

\* TestReconnect.default_ha_conns, TestReconnect.default_reconnect_secs
default_ha_conns == 4
default_reconnect_secs == 15

\* self.assert_reconnect(config, cloudflared, 5) and (config, cloudflared, 1)
named_repeat == 5
classic_repeat == 1

\* The keywords of the test's call of component_tests_config:
\* test_named_reconnect passes self.extra_config by position,
\* test_classic_reconnect passes additional_config= and named_tunnel=.
config_keywords(repeat) ==
    IF repeat = classic_repeat THEN {"additional_config", "named_tunnel"} ELSE {}

\* _component_tests_config(additional_config={}, cfd_mode=CfdModes.NAMED,
\* run_proxy_dns=True, provide_ingress=True): a call with a keyword that is no
\* parameter raises TypeError.
component_tests_config_returns(keywords) ==
    keywords \subseteq {"additional_config", "cfd_mode", "run_proxy_dns", "provide_ingress"}

\* @flaky(max_runs=3, min_passes=1)
max_runs == 3

\* sleep(self.default_reconnect_secs * 2)
settle_once == default_reconnect_secs
settle_sleep == default_reconnect_secs * 2

\* expect_connections = self.default_ha_conns-i-1
expect_off_by_one(i) == default_ha_conns - i
expect_connections(i) == default_ha_conns - i - 1

\* What the readiness endpoint of the child answers while connections go down
\* and come back: 200 with the count while a connection is ready, 503 with
\* zero when none is, or no answer.
ReconResponses ==
    TransportErrors \cup
    {Response(IF n > 0 THEN 200 ELSE 503, n) : n \in 0..default_ha_conns}

\* wait_tunnel_ready(require_min_connections=min) ends on resp, the answer it
\* returned on or the last one of its retries: did it return?
wait_ready_passes(resp, min) ==
    /\ send_request_attempt("ready", resp, TRUE) = NoExc
    /\ enough_connections(resp.readyConnections, min)

\* check_tunnel_not_connected() ends on resp: did it return?
not_connected_passes(resp) == check_tunnel_not_connected_attempt(resp) = NoExc

InitRecon ==
    /\ r_pc = "run_start"
    /\ r_repeat \in {named_repeat, classic_repeat}
    /\ r_rep = 0
    /\ r_i = 0
    /\ r_directives = 0
    /\ r_ready_n = FALSE
    /\ r_zero = FALSE
    /\ r_clock = 0
    /\ r_reobserved = NoTime
    /\ r_runs = 0
    /\ r_last = NoReconCheck
    /\ WaitIdle
    /\ LifeIdle
    /\ StartIdle
    /\ TermIdle
    /\ LogIdle
    /\ SeqIdle
    /\ ToolIdle

\* flaky runs the test (again): config = component_tests_config(...), then a
\* new child and a new call of assert_reconnect; when the call for the config
\* raises, the run has failed before a child is started.
ReconRunStart ==
    /\ r_pc = "run_start"
    /\ r_runs' = r_runs + 1
    /\ r_rep' = 0
    /\ r_i' = 0
    /\ r_directives' = 0
    /\ r_ready_n' = FALSE
    /\ r_zero' = FALSE
    /\ r_clock' = 0
    /\ r_reobserved' = NoTime
    /\ r_last' = NoReconCheck
    /\ r_pc' = IF component_tests_config_returns(config_keywords(r_repeat))
              THEN "wait_initial" ELSE "run_failed"
    /\ UNCHANGED <<r_repeat>>
    /\ UNCHANGED <<waitVars, lifeVars, startVars, termVars, logVars, seqVars, toolVars>>

\* assert_reconnect: wait_tunnel_ready(tunnel_url=config.get_url(),
\* require_min_connections=self.default_ha_conns) before the first repetition.
ReconWaitInitial ==
    /\ r_pc = "wait_initial"
    /\ \E ok \in BOOLEAN :
        /\ r_ready_n' = ok
        /\ r_pc' = IF ok THEN "send" ELSE "run_failed"
    /\ UNCHANGED <<r_repeat, r_rep, r_i, r_directives, r_zero, r_clock,
                   r_reobserved, r_runs, r_last>>
    /\ UNCHANGED <<waitVars, lifeVars, startVars, termVars, logVars, seqVars, toolVars>>

\* send_reconnect(cloudflared, self.default_reconnect_secs): the directive is
\* written to the child's stdin, or the write raises.
ReconSend ==
    /\ r_pc = "send"
    /\ \E ok \in BOOLEAN :
        /\ r_directives' = IF ~ok THEN r_directives
                           ELSE IF r_i = 0 THEN 1 ELSE r_directives + 1
        /\ r_clock' = IF ok THEN 0 ELSE r_clock
        /\ r_zero' = FALSE
        /\ r_reobserved' = NoTime
        /\ r_pc' = IF ok THEN "observe" ELSE "run_failed"
    /\ UNCHANGED <<r_repeat, r_rep, r_i, r_ready_n, r_runs, r_last>>
    /\ UNCHANGED <<waitVars, lifeVars, startVars, termVars, logVars, seqVars, toolVars>>

\* assert_reconnect, after directive number r_i + 1:
\* wait_tunnel_ready(require_min_connections=expect_connections) while
\* expect_connections > 0, else check_tunnel_not_connected().  resp is the
\* answer the call ended on, k the attempt at which
\* check_tunnel_not_connected ended, d the seconds the GETs that were
\* answered took.
ReconObserve ==
    /\ r_pc = "observe"
    /\ \E resp \in ReconResponses, k \in 1..MAX_RETRIES, d \in 0..MaxStep :
        LET expect == expect_connections(r_i)
            ok == IF expect > 0 THEN wait_ready_passes(resp, expect)
                  ELSE not_connected_passes(resp)
            how == IF ok THEN "returned"
                   ELSE IF send_request_attempt("ready", resp, TRUE) = NoExc
                   THEN "connections"
                   ELSE IF resp.kind = "ReadTimeout" THEN "ReadTimeout" ELSE "request"
            secs == IF expect > 0 THEN wait_tunnel_ready_secs(1, how)
                    ELSE {retry_wait_secs(k) + t * BACKOFF_SECS :
                             t \in timed_out_gets(k, resp.kind = "ReadTimeout")}
        IN
        /\ IF expect > 0 THEN k = 1
           ELSE ~ok => stop_max_attempt_number(k)
        /\ \E sec \in secs : r_clock' = r_clock + sec + d
        /\ r_zero' = (ok /\ ~(expect > 0))
        /\ r_i' = IF ok THEN r_i + 1 ELSE r_i
        /\ r_last' = [k |-> r_i + 1, required |-> IF expect > 0 THEN expect ELSE 0,
                      waited |-> expect > 0, resp |-> resp, ok |-> ok]
        /\ r_pc' = IF ~ok THEN "run_failed"
                   ELSE IF r_i + 1 < default_ha_conns THEN "send" ELSE "sleep"
    /\ UNCHANGED <<r_repeat, r_rep, r_directives, r_ready_n, r_reobserved,
                   r_runs>>
    /\ UNCHANGED <<waitVars, lifeVars, startVars, termVars, logVars, seqVars, toolVars>>

\* assert_reconnect: sleep(self.default_reconnect_secs * 2)
ReconSleep ==
    /\ r_pc = "sleep"
    /\ r_clock' = r_clock + settle_sleep
    /\ r_pc' = "wait_again"
    /\ UNCHANGED <<r_repeat, r_rep, r_i, r_directives, r_ready_n, r_zero,
                   r_reobserved, r_runs, r_last>>
    /\ UNCHANGED <<waitVars, lifeVars, startVars, termVars, logVars, seqVars, toolVars>>

\* assert_reconnect: wait_tunnel_ready(tunnel_url=config.get_url(),
\* require_min_connections=self.default_ha_conns) ends the repetition; how is
\* the way the call ended, d the seconds the GETs that were answered took.
ReconWaitAgain ==
    /\ r_pc = "wait_again"
    /\ \E how \in {"returned", "connections", "ReadTimeout", "request"},
          d \in 0..MaxStep :
      \E sec \in wait_tunnel_ready_secs(2, how) :
        LET ok == how = "returned" IN
        /\ r_clock' = r_clock + sec + d
        /\ r_reobserved' = IF ok THEN r_clock + sec + d ELSE NoTime
        /\ r_ready_n' = ok
        /\ r_rep' = IF ok THEN r_rep + 1 ELSE r_rep
        /\ r_i' = IF ok THEN 0 ELSE r_i
        /\ r_pc' = IF ~ok THEN "run_failed"
                   ELSE IF r_rep + 1 < r_repeat THEN "send" ELSE "run_passed"
    /\ UNCHANGED <<r_repeat, r_directives, r_zero, r_runs, r_last>>
    /\ UNCHANGED <<waitVars, lifeVars, startVars, termVars, logVars, seqVars, toolVars>>

\* The run is over.  Whether the test is run again is decided by the flaky
\* package, which is not part of the repository: all that the decorator at
\* test_reconnect.py:12 fixes is max_runs, so after a run the test is either
\* started again, max_runs times at most, or not run any more.
ReconRunEnd ==
    /\ r_pc \in {"run_passed", "run_failed"}
    /\ \E again \in BOOLEAN :
        /\ again => r_runs < max_runs
        /\ r_pc' = IF again THEN "run_start" ELSE "done"
    /\ UNCHANGED <<r_repeat, r_rep, r_i, r_directives, r_ready_n, r_zero,
                   r_clock, r_reobserved, r_runs, r_last>>
    /\ UNCHANGED <<waitVars, lifeVars, startVars, termVars, logVars, seqVars, toolVars>>

NextRecon ==
    \/ ReconRunStart \/ ReconWaitInitial \/ ReconSend \/ ReconObserve
    \/ ReconSleep \/ ReconWaitAgain \/ ReconRunEnd

SpecRecon == InitRecon /\ [][NextRecon]_vars

\* ------------------------------------------------------------------------
\* SpecLog: one call of a log verifier of test_logging on a log described by
\* what the verifier can see of it: the number of lines and the first line
\* that contains expect_message for the scans, the first line and the first
\* malformed line for assert_json_log, and for assert_log_to_dir the number
\* of files after each batch and the sizes of the two files.

\* constants.MAX_LOG_LINES
MAX_LOG_LINES == 50

\* rotate_after_size = 1000 * 1000
rotate_after_size == 1000 * 1000

\* assert_log_to_dir: max_batches = 3
max_batches == 3

\* Lines of the longest log the scans are given in the model.
MaxFileLines == 52
\* Lines of the longest file assert_json_log is given in the model.
MaxJsonLines == 3
\* Files of the fullest log directory in the model.
MaxDirFiles == 3

\* What a line of the log file can be: a record with level, time and message,
\* a JSON object that lacks one of them, or no JSON at all.
LineKinds == {"record", "no_level", "no_time", "no_message", "not_json"}

\* st_size of a file, around the two thresholds.
Sizes == {0, 1, rotate_after_size, rotate_after_size + 1}

\* for _ in range(0, MAX_LOG_LINES): line = readline(); if not line: break;
\* if expect_message in line: return.  Turn i of the loop on a log of len
\* lines whose first line with the message is line match: was the message
\* found, and how many lines were read.
RECURSIVE scan_unbounded(_, _, _)
scan_unbounded(len, match, i) ==
    IF i > len THEN [found |-> FALSE, read |-> len]
    ELSE IF i = match THEN [found |-> TRUE, read |-> i]
    ELSE scan_unbounded(len, match, i + 1)
RECURSIVE scan_lines(_, _, _)
scan_lines(len, match, i) ==
    IF i > MAX_LOG_LINES THEN [found |-> FALSE, read |-> MAX_LOG_LINES]
    ELSE IF i > len THEN [found |-> FALSE, read |-> len]
    ELSE IF i = match THEN [found |-> TRUE, read |-> i]
    ELSE scan_lines(len, match, i + 1)

\* line = cloudflared.stderr.readline() on the pipe of a child: once the lines
\* the child wrote are read, readline returns b"" only if the child has closed
\* stderr, and waits for the child otherwise.  The scan gets there when it
\* has neither found the message nor read MAX_LOG_LINES lines.
scan_waits(fn, len, match, eof) ==
    /\ fn = "terminal"
    /\ ~eof
    /\ ~scan_lines(len, match, 1).found
    /\ scan_lines(len, match, 1).read < MAX_LOG_LINES

\* assert_log_to_terminal, assert_log_in_file: return, or
\* raise Exception(f"... doesn't contain {expect_message}")
assert_log_result(fn, len, match) ==
    IF scan_lines(len, match, 1).found THEN "returned"
    ELSE IF fn = "terminal" THEN "Exception: terminal log doesn't contain Starting Hello"
    ELSE "Exception: log file doesn't contain Starting Hello"

\* assert_json_log: json.loads of the first line, then the three keys.
json_log_two_keys(first) ==
    IF first \in {"none", "not_json"} THEN "JSONDecodeError"
    ELSE IF first = "no_level" THEN "AssertionError: level is not in j"
    ELSE IF first = "no_time" THEN "AssertionError: time is not in j"
    ELSE "returned"
assert_json_log(first) ==
    IF first \in {"none", "not_json"} THEN "JSONDecodeError"
    ELSE IF first = "no_level" THEN "AssertionError: level is not in j"
    ELSE IF first = "no_time" THEN "AssertionError: time is not in j"
    ELSE IF first = "no_message" THEN "AssertionError: message is not in j"
    ELSE "returned"

\* assert stats.st_size > 0
current_not_empty(size) == size > 0

\* assert stats.st_size > rotate_after_size
rotated_or_equal(size) == size >= rotate_after_size
rotated_over(size) == size > rotate_after_size

\* for _ in range(max_batches) is over after b batches.
budget_over(b) == b >= max_batches

\* assert_log_to_dir, if len(files) == 2: the first check that fails and what
\* it raises, or "none" and "returned".  Every value is what the call that
\* reads it finds at its moment: the child goes on writing and rotating the
\* files, so the second assert_json_log(current_file) has its own first line.
two_files_checks ==
    IF ~d_default
    THEN [check |-> "default_file", result |-> "ValueError: 'cloudflared.log' is not in list"]
    ELSE IF ~current_not_empty(d_cur_size)
    THEN [check |-> "current_size", result |-> "AssertionError"]
    ELSE IF assert_json_log(f_first) # "returned"
    THEN [check |-> "json", result |-> assert_json_log(f_first)]
    ELSE IF ~rotated_over(d_rot_size)
    THEN [check |-> "rotated_size", result |-> "AssertionError"]
    ELSE IF assert_log_result("in_file", f_len, f_match) # "returned"
    THEN [check |-> "substring", result |-> assert_log_result("in_file", f_len, f_match)]
    ELSE IF assert_json_log(f_again) # "returned"
    THEN [check |-> "json_again", result |-> assert_json_log(f_again)]
    ELSE [check |-> "none", result |-> "returned"]

\* The first line of a file of len lines whose first malformed line is bad.
FirstKinds(len, bad) ==
    IF len = 0 THEN {"none"}
    ELSE IF bad = 1 THEN LineKinds \ {"record"}
    ELSE {"record"}

InitLog ==
    /\ l_fn \in {"terminal", "in_file", "json", "to_dir"}
    /\ l_pc = IF l_fn = "to_dir" THEN "batch" ELSE "call"
    /\ f_len \in 0..MaxFileLines
    /\ f_match \in 0..f_len
    /\ f_bad \in 0..MaxJsonLines
    /\ l_fn \in {"terminal", "in_file"} => (f_bad = 0 /\ f_first = "none")
    /\ l_fn = "json" =>
        /\ f_len <= MaxJsonLines
        /\ f_match = 0
        /\ f_bad <= f_len
    /\ l_fn = "to_dir" =>
        /\ f_len = MaxFileLines
        /\ f_match \in {0, 1, MAX_LOG_LINES, MAX_LOG_LINES + 1}
        /\ f_bad <= 1
    /\ f_first \in IF l_fn \in {"terminal", "in_file"} THEN {"none"}
                   ELSE IF l_fn = "json" THEN FirstKinds(f_len, f_bad)
                   ELSE FirstKinds(1, f_bad)
    /\ f_eof \in IF l_fn = "terminal" THEN BOOLEAN ELSE {TRUE}
    /\ f_again \in IF l_fn = "to_dir" THEN LineKinds \cup {"none"} ELSE {"none"}
    /\ d_files = 0
    /\ d_default \in BOOLEAN
    /\ d_cur_size \in Sizes
    /\ d_rot_size \in Sizes
    /\ l_fn # "to_dir" => (d_default = FALSE /\ d_cur_size = 0 /\ d_rot_size = 0)
    /\ l_batches = 0
    /\ l_after_two = 0
    /\ l_read = 0
    /\ l_result = "none"
    /\ l_check = "none"
    /\ WaitIdle
    /\ LifeIdle
    /\ StartIdle
    /\ TermIdle
    /\ ReconIdle
    /\ SeqIdle
    /\ ToolIdle

\* assert_log_to_terminal(cloudflared), assert_log_in_file(file): the call
\* returns or raises, or it stays in readline for as long as the child keeps
\* stderr open and writes nothing more.
LogScan ==
    /\ l_pc = "call"
    /\ l_fn \in {"terminal", "in_file"}
    /\ l_read' = scan_lines(f_len, f_match, 1).read
    /\ l_result' = IF scan_waits(l_fn, f_len, f_match, f_eof) THEN "none"
                   ELSE assert_log_result(l_fn, f_len, f_match)
    /\ l_pc' = IF scan_waits(l_fn, f_len, f_match, f_eof) THEN "waiting" ELSE "done"
    /\ UNCHANGED <<l_fn, f_len, f_match, f_first, f_bad, f_eof, f_again, d_files, d_default,
                   d_cur_size, d_rot_size, l_batches, l_after_two, l_check>>
    /\ UNCHANGED <<waitVars, lifeVars, startVars, termVars, reconVars, seqVars, toolVars>>

\* assert_json_log(file)
JsonLog ==
    /\ l_pc = "call"
    /\ l_fn = "json"
    /\ l_read' = IF f_len = 0 THEN 0 ELSE 1
    /\ l_result' = assert_json_log(f_first)
    /\ l_pc' = "done"
    /\ UNCHANGED <<l_fn, f_len, f_match, f_first, f_bad, f_eof, f_again, d_files, d_default,
                   d_cur_size, d_rot_size, l_batches, l_after_two, l_check>>
    /\ UNCHANGED <<waitVars, lifeVars, startVars, termVars, reconVars, seqVars, toolVars>>

\* assert_log_to_dir, one turn of the loop: send_requests(config.get_url(),
\* batch_requests, require_ok=False), which raises the transport error resp of
\* a send_request that used up its attempts on it; else
\* os.listdir, and with exactly 2 files the checks and the return; after the
\* last turn the exception.
ToDirBatch ==
    /\ l_pc = "batch"
    /\ \E resp \in TunnelResponses, n \in 0..MaxDirFiles :
        LET c == two_files_checks
            e == send_request_attempt("url", resp, FALSE)
        IN
        /\ e # NoExc => n = d_files
        /\ d_files' = n
        /\ l_batches' = l_batches + 1
        /\ l_after_two' = IF d_files = 2 THEN l_after_two + 1 ELSE l_after_two
        /\ l_check' = IF e # NoExc THEN "send_requests"
                      ELSE IF n = 2 THEN c.check
                      ELSE IF budget_over(l_batches + 1) THEN "budget" ELSE "none"
        /\ l_result' = IF e # NoExc THEN e.type
                       ELSE IF n = 2 THEN c.result
                       ELSE IF budget_over(l_batches + 1)
                       THEN "Exception: Log file isn't rotated after sending 3000 requests"
                       ELSE "none"
        /\ l_pc' = IF e # NoExc \/ n = 2 \/ budget_over(l_batches + 1)
                   THEN "done" ELSE "batch"
    /\ UNCHANGED <<l_fn, f_len, f_match, f_first, f_bad, f_eof, f_again, d_default,
                   d_cur_size, d_rot_size, l_read>>
    /\ UNCHANGED <<waitVars, lifeVars, startVars, termVars, reconVars, seqVars, toolVars>>

NextLog == LogScan \/ JsonLog \/ ToDirBatch

SpecLog == InitLog /\ [][NextLog]_vars

\* ------------------------------------------------------------------------
\* SpecSeq: consecutive tests that each start cloudflared in the background.
\* Before each test the autouse fixture wait_previous_cloudflared sleeps;
\* run_cloudflared_background starts the child, and when the body is left
\* sends it SIGTERM; with capture_output it then reads the child's stderr to
\* its end, without it returns without waiting for the child.  How long a
\* child takes to exit after SIGTERM is the child's affair.

\* Tests run one after the other in the model.
MaxTests == 4
\* The longest a child takes to exit after SIGTERM in the model, in seconds.
MaxExitDelay == 8
\* The longest a test body runs in the model, in seconds.
MaxBodySecs == 2

\* What is left of n seconds after d seconds have passed.
secs_left(n, d) == IF n > d THEN n - d ELSE 0

\* Children alive when Popen has returned: the new one, and the previous one
\* if it has not exited yet.
alive_at_start(prev_left) == IF prev_left > 0 THEN 2 ELSE 1

\* The seconds a child of this or an earlier test still needs to exit when
\* the finally of run_cloudflared_background is over.
cleanup_left(cur, capture, prev_left, left) ==
    IF cur # "running" THEN prev_left
    ELSE IF capture THEN secs_left(prev_left, left)
    ELSE IF left > prev_left THEN left ELSE prev_left

InitSeq ==
    /\ q_pc = "fixture"
    /\ q_test = 1
    /\ q_prev_left = 0
    /\ q_cur = "absent"
    /\ q_leave = "none"
    /\ q_capture = FALSE
    /\ q_alive_max = 0
    /\ WaitIdle
    /\ LifeIdle
    /\ StartIdle
    /\ TermIdle
    /\ ReconIdle
    /\ LogIdle
    /\ ToolIdle

\* wait_previous_cloudflared: sleep(BACKOFF_SECS)
SeqFixture ==
    /\ q_pc = "fixture"
    /\ q_prev_left' = secs_left(q_prev_left, BACKOFF_SECS)
    /\ q_pc' = "start"
    /\ UNCHANGED <<q_test, q_cur, q_leave, q_capture, q_alive_max>>
    /\ UNCHANGED <<waitVars, lifeVars, startVars, termVars, reconVars, logVars, toolVars>>

\* run_cloudflared_background(cmd, allow_input, capture_output):
\* cfd = subprocess.Popen(cmd, ...); yield cfd
SeqStart ==
    /\ q_pc = "start"
    /\ q_capture' \in BOOLEAN
    /\ q_cur' = "running"
    /\ q_alive_max' = IF alive_at_start(q_prev_left) > q_alive_max
                      THEN alive_at_start(q_prev_left) ELSE q_alive_max
    /\ q_pc' = "body"
    /\ UNCHANGED <<q_test, q_prev_left, q_leave>>
    /\ UNCHANGED <<waitVars, lifeVars, startVars, termVars, reconVars, logVars, toolVars>>

\* The child exits while the body runs (or the body has terminated it and
\* seen it exit).
SeqChildExit ==
    /\ q_pc = "body"
    /\ q_cur = "running"
    /\ q_cur' = "exited"
    /\ UNCHANGED <<q_pc, q_test, q_prev_left, q_leave, q_capture, q_alive_max>>
    /\ UNCHANGED <<waitVars, lifeVars, startVars, termVars, reconVars, logVars, toolVars>>

\* The body of the with statement is left, normally or by an exception,
\* after d seconds.
SeqBodyEnds ==
    /\ q_pc = "body"
    /\ \E d \in 0..MaxBodySecs, how \in {"normal", "exception"} :
        /\ q_prev_left' = secs_left(q_prev_left, d)
        /\ q_leave' = how
    /\ q_pc' = "cleanup"
    /\ UNCHANGED <<q_test, q_cur, q_capture, q_alive_max>>
    /\ UNCHANGED <<waitVars, lifeVars, startVars, termVars, reconVars, logVars, toolVars>>

\* finally: cfd.terminate(); if capture_output: cfd.stderr.read(); the next
\* test follows.  A running child exits left seconds after the signal.
\* Without capture_output the finally does not wait for it; with
\* capture_output the read returns when the child has closed stderr, that is
\* after these left seconds, which pass for the earlier children as well.
SeqCleanup ==
    /\ q_pc = "cleanup"
    /\ \E left \in 0..MaxExitDelay :
        q_prev_left' = cleanup_left(q_cur, q_capture, q_prev_left, left)
    /\ q_cur' = "absent"
    /\ q_leave' = "none"
    /\ q_capture' = FALSE
    /\ q_test' = IF q_test < MaxTests THEN q_test + 1 ELSE q_test
    /\ q_pc' = IF q_test < MaxTests THEN "fixture" ELSE "over"
    /\ UNCHANGED <<q_alive_max>>
    /\ UNCHANGED <<waitVars, lifeVars, startVars, termVars, reconVars, logVars, toolVars>>

NextSeq == SeqFixture \/ SeqStart \/ SeqChildExit \/ SeqBodyEnds \/ SeqCleanup

SpecSeq == InitSeq /\ [][NextSeq]_vars

\* ------------------------------------------------------------------------
\* SpecSend: one call of send_requests(url, count, require_ok), GET by GET.

\* The largest count in the model.
MaxCount == 3

\* return resp if resp.status_code == 200 else None
send_request_return(resp) == IF resp.status = 200 THEN "resp" ELSE "None"

InitSend ==
    /\ sd_pc = "request"
    /\ sd_require_ok \in BOOLEAN
    /\ sd_count \in 1..MaxCount
    /\ sd_calls = 0
    /\ sd_attempt = 1
    /\ sd_gets = 0
    /\ sd_errors = 0
    /\ sd_non200 = 0
    /\ sd_last = NoCall
    /\ sd_outcome = "running"
    /\ sd_exc = NoExc
    /\ WaitIdle
    /\ LifeIdle
    /\ StartIdle
    /\ TermIdle
    /\ ReconIdle
    /\ LogIdle
    /\ SeqIdle
    /\ DumpIdle
    /\ CfgIdle
    /\ RelIdle
    /\ MsgIdle

\* resp = send_request(s, url, require_ok), one GET of it: the attempt raises
\* and is retried or gives up, or returns and the loop of send_requests goes
\* on.
SendGet ==
    /\ sd_pc = "request"
    /\ \E resp \in TunnelResponses :
        LET e == send_request_attempt("url", resp, sd_require_ok)
            again == e # NoExc /\ retry_on_exception(e) /\ ~stop_max_attempt_number(sd_attempt)
            statuses == IF sd_attempt = 1 THEN 0 ELSE sd_last.statuses
            seen == IF resp.kind = "Response" THEN statuses + 1 ELSE statuses
            ret == IF e # NoExc THEN (IF again THEN "none" ELSE "raised")
                   ELSE send_request_return(resp)
        IN
        /\ sd_gets' = sd_gets + 1
        /\ sd_last' = [gets |-> sd_attempt, statuses |-> seen, ret |-> ret,
                       status |-> resp.status]
        /\ sd_attempt' = IF again THEN sd_attempt + 1 ELSE 1
        /\ sd_calls' = IF e = NoExc THEN sd_calls + 1 ELSE sd_calls
        /\ sd_errors' = IF ret = "None" THEN sd_errors + 1 ELSE sd_errors
        /\ sd_non200' = IF e = NoExc /\ resp.status # 200 THEN sd_non200 + 1 ELSE sd_non200
        /\ sd_exc' = IF ret = "raised" THEN e ELSE NoExc
        /\ sd_outcome' = IF ret = "raised" THEN "raised"
                         ELSE IF e = NoExc /\ sd_calls + 1 = sd_count THEN "returned"
                         ELSE "running"
        /\ sd_pc' = IF ret = "raised" \/ (e = NoExc /\ sd_calls + 1 = sd_count)
                    THEN "done" ELSE "request"
    /\ UNCHANGED <<sd_require_ok, sd_count>>
    /\ UNCHANGED <<waitVars, lifeVars, startVars, termVars, reconVars, logVars, seqVars,
                   dumpVars, cfgVars, relVars, msgVars>>

SpecSend == InitSend /\ [][SendGet]_vars

\* ------------------------------------------------------------------------
\* SpecCfg: the construction of a NamedTunnelConfig or QuickTunnelConfig,
\* whose __post_init__ sets full_config to merge_config(additional_config).
\* A dict is a function from its keys; the values of the object's own
\* fields are written "base".

\* The dicts a test can pass as additional_config.
AdditionalConfigs ==
    UNION {[ks -> {"add", "None"}] :
           ks \in SUBSET {"no-autoupdate", "metrics", "tunnel", "credentials-file",
                          "ingress", "loglevel"}}

\* d with d[k] = v set.
dict_set(d, k, v) == [x \in DOMAIN d \cup {k} |-> IF x = k THEN v ELSE d[x]]

\* BaseConfig.merge_config: the dict returned and what additional holds
\* afterwards.
base_merge_in_place(additional) ==
    LET config == dict_set(dict_set(additional, "no-autoupdate", "base"), "metrics", "base")
    IN [config |-> config, additional |-> config]
base_merge_config(additional) ==
    LET config == dict_set(dict_set(additional, "no-autoupdate", "base"), "metrics", "base")
    IN [config |-> config, additional |-> additional]

\* NamedTunnelBaseConfig.merge_config
named_merge_config(additional) ==
    LET m == base_merge_config(additional)
        set_default(d, k) == IF k \in DOMAIN d THEN d ELSE dict_set(d, k, "base")
        config == set_default(set_default(set_default(m.config, "tunnel"),
                                          "credentials-file"), "ingress")
    IN [config |-> config, additional |-> m.additional]

InitCfg ==
    /\ cf_pc = "new"
    /\ cf_class \in {"NamedTunnelConfig", "QuickTunnelConfig"}
    /\ cf_additional \in AdditionalConfigs
    /\ cf_before = cf_additional
    /\ cf_full = EmptyDict
    /\ WaitIdle
    /\ LifeIdle
    /\ StartIdle
    /\ TermIdle
    /\ ReconIdle
    /\ LogIdle
    /\ SeqIdle
    /\ DumpIdle
    /\ SendIdle
    /\ RelIdle
    /\ MsgIdle

\* __post_init__(self, additional_config)
CfgPostInit ==
    /\ cf_pc = "new"
    /\ LET m == IF cf_class = "NamedTunnelConfig"
                THEN named_merge_config(cf_additional)
                ELSE base_merge_config(cf_additional)
       IN /\ cf_full' = m.config
          /\ cf_additional' = m.additional
    /\ cf_pc' = "built"
    /\ UNCHANGED <<cf_class, cf_before>>
    /\ UNCHANGED <<waitVars, lifeVars, startVars, termVars, reconVars, logVars, seqVars,
                   dumpVars, sendVars, relVars, msgVars>>

SpecCfg == InitCfg /\ [][CfgPostInit]_vars

\* ------------------------------------------------------------------------
\* SpecRel: two builds run the non-dry-run main of github_release.py over
\* the same directory and for the same version "v", step by step at the
\* calls to GitHub and to Workers KV.

\* The most files the directory has in the model.
MaxFiles == 2

\* assert_asset_version: what it finds of a file: its version is the release
\* version ("match"), it is not ("mismatch"), or the extension is one the
\* function does not look into ("other").
version_unchecked(kind) == kind \in {"match", "mismatch", "other"}
version_matches(kind) == kind # "mismatch"

\* assert_tag_exists: TRUE when it returns, FALSE when it raises.
assert_tag_exists(tags, version) == Len(tags) > 0 /\ tags[1] = version

\* upload_asset: for asset in assets: if asset.name == filename
asset_never_found(filename, assets) == filename \in assets \ assets
asset_uploaded(filename, assets) == filename \in assets

\* send_hash: if response.status_code != 200: ... if len(errors) > 0: raise
send_hash_raises(status, errors) == status # 200 /\ errors > 0

\* Where main goes on once it has the release.
after_release == IF Len(rl_dir) > 0 THEN "look" ELSE "done"

InitRel ==
    /\ rl_tags \in {<<>>, <<"v">>, <<"old">>, <<"v", "old">>, <<"new", "v">>}
    /\ \E n \in 0..MaxFiles :
        rl_dir \in [1..n -> [name : AssetNames, kind : {"match", "mismatch", "other"}]]
    /\ \A i, j \in 1..Len(rl_dir) : i # j => rl_dir[i].name # rl_dir[j].name
    /\ rl_release \in {"none", "old"}
    /\ rl_created = 0
    /\ rl_assets = {}
    /\ rl_kv = {}
    /\ rl_uploads = [n \in AssetNames |-> 0]
    /\ rl_puts = [n \in AssetNames |-> 0]
    /\ rl_pc = [b \in Builds |-> "check"]
    /\ rl_got = [b \in Builds |-> "none"]
    /\ rl_i = [b \in Builds |-> 1]
    /\ rl_why = [b \in Builds |-> "none"]
    /\ WaitIdle
    /\ LifeIdle
    /\ StartIdle
    /\ TermIdle
    /\ ReconIdle
    /\ LogIdle
    /\ SeqIdle
    /\ DumpIdle
    /\ SendIdle
    /\ CfgIdle
    /\ MsgIdle

\* main: for filename in onlyfiles: assert_asset_version(binary_path, ...),
\* the whole first loop.
RelCheckVersions ==
    \E b \in Builds :
        /\ rl_pc[b] = "check"
        /\ LET ok == \A i \in 1..Len(rl_dir) : version_matches(rl_dir[i].kind) IN
           /\ rl_pc' = [rl_pc EXCEPT ![b] = IF ok THEN "get" ELSE "exit1"]
           /\ rl_why' = [rl_why EXCEPT ![b] = IF ok THEN "none" ELSE "version"]
    /\ UNCHANGED <<rl_tags, rl_dir, rl_release, rl_created, rl_assets, rl_kv,
                   rl_uploads, rl_puts, rl_got, rl_i>>
    /\ UNCHANGED <<waitVars, lifeVars, startVars, termVars, reconVars, logVars, seqVars, dumpVars, sendVars, cfgVars, msgVars>>

\* get_or_create_release: repo.get_release(version), and when there is none
\* assert_tag_exists(repo, version).
RelGet ==
    \E b \in Builds :
        /\ rl_pc[b] = "get"
        /\ rl_got' = [rl_got EXCEPT ![b] = rl_release]
        /\ rl_pc' = [rl_pc EXCEPT ![b] =
                        IF rl_release # "none" THEN after_release
                        ELSE IF assert_tag_exists(rl_tags, "v") THEN "create"
                        ELSE "exit1"]
        /\ rl_why' = [rl_why EXCEPT ![b] =
                        IF rl_release = "none" /\ ~assert_tag_exists(rl_tags, "v")
                        THEN "tag" ELSE "none"]
    /\ UNCHANGED <<rl_tags, rl_dir, rl_release, rl_created, rl_assets, rl_kv,
                   rl_uploads, rl_puts, rl_i>>
    /\ UNCHANGED <<waitVars, lifeVars, startVars, termVars, reconVars, logVars, seqVars, dumpVars, sendVars, cfgVars, msgVars>>

\* get_or_create_release: repo.create_git_release(...), which GitHub answers
\* with 422 already_exists when the version has a release; then
\* repo.get_release(version) once more.
RelCreate ==
    \E b \in Builds :
        /\ rl_pc[b] = "create"
        /\ rl_release' = IF rl_release = "none" THEN b ELSE rl_release
        /\ rl_created' = IF rl_release = "none" THEN rl_created + 1 ELSE rl_created
        /\ rl_got' = [rl_got EXCEPT ![b] = IF rl_release = "none" THEN b ELSE rl_release]
        /\ rl_pc' = [rl_pc EXCEPT ![b] = after_release]
    /\ UNCHANGED <<rl_tags, rl_dir, rl_assets, rl_kv, rl_uploads, rl_puts,
                   rl_i, rl_why>>
    /\ UNCHANGED <<waitVars, lifeVars, startVars, termVars, reconVars, logVars, seqVars, dumpVars, sendVars, cfgVars, msgVars>>

\* upload_asset: release.get_assets() and the search for filename; an asset
\* that is there is skipped.
RelLook ==
    \E b \in Builds :
        /\ rl_pc[b] = "look"
        /\ LET found == asset_uploaded(rl_dir[rl_i[b]].name, rl_assets) IN
           /\ rl_i' = [rl_i EXCEPT ![b] = IF found THEN rl_i[b] + 1 ELSE rl_i[b]]
           /\ rl_pc' = [rl_pc EXCEPT ![b] =
                           IF ~found THEN "put"
                           ELSE IF rl_i[b] < Len(rl_dir) THEN "look" ELSE "done"]
    /\ UNCHANGED <<rl_tags, rl_dir, rl_release, rl_created, rl_assets, rl_kv,
                   rl_uploads, rl_puts, rl_got, rl_why>>
    /\ UNCHANGED <<waitVars, lifeVars, startVars, termVars, reconVars, logVars, seqVars, dumpVars, sendVars, cfgVars, msgVars>>

\* upload_asset: release.upload_asset(filepath, name=filename), which GitHub
\* refuses when the release has an asset of that name.
RelPut ==
    \E b \in Builds :
        /\ rl_pc[b] = "put"
        /\ LET name == rl_dir[rl_i[b]].name
               taken == name \in rl_assets
           IN
           /\ rl_assets' = rl_assets \cup {name}
           /\ rl_uploads' = [rl_uploads EXCEPT ![name] = IF taken THEN @ ELSE @ + 1]
           /\ rl_why' = [rl_why EXCEPT ![b] = IF taken THEN "upload" ELSE "none"]
           /\ rl_pc' = [rl_pc EXCEPT ![b] = IF taken THEN "exit1" ELSE "hash"]
    /\ UNCHANGED <<rl_tags, rl_dir, rl_release, rl_created, rl_kv, rl_puts, rl_got, rl_i>>
    /\ UNCHANGED <<waitVars, lifeVars, startVars, termVars, reconVars, logVars, seqVars, dumpVars, sendVars, cfgVars, msgVars>>

\* upload_asset: send_hash(pkg_hash, filename, ...), the requests.put to
\* Workers KV, which answers with status and, when that is not 200, a list of
\* errors; then main goes on to the next file.
RelSendHash ==
    \E b \in Builds, status \in {200, 500}, errors \in 0..1 :
        /\ rl_pc[b] = "hash"
        /\ status = 200 => errors = 0
        /\ LET name == rl_dir[rl_i[b]].name
               raises == send_hash_raises(status, errors)
           IN
           /\ rl_kv' = IF status = 200 THEN rl_kv \cup {name} ELSE rl_kv
           /\ rl_puts' = [rl_puts EXCEPT ![name] = IF status = 200 THEN @ + 1 ELSE @]
           /\ rl_i' = [rl_i EXCEPT ![b] = IF raises THEN rl_i[b] ELSE rl_i[b] + 1]
           /\ rl_why' = [rl_why EXCEPT ![b] = IF raises THEN "checksum" ELSE "none"]
           /\ rl_pc' = [rl_pc EXCEPT ![b] =
                           IF raises THEN "exit1"
                           ELSE IF rl_i[b] < Len(rl_dir) THEN "look" ELSE "done"]
    /\ UNCHANGED <<rl_tags, rl_dir, rl_release, rl_created, rl_assets, rl_uploads, rl_got>>
    /\ UNCHANGED <<waitVars, lifeVars, startVars, termVars, reconVars, logVars, seqVars, dumpVars, sendVars, cfgVars, msgVars>>

NextRel ==
    \/ RelCheckVersions \/ RelGet \/ RelCreate \/ RelLook \/ RelPut
    \/ RelSendHash

SpecRel == InitRel /\ [][NextRel]_vars

\* ------------------------------------------------------------------------
\* SpecMsg: main of github_message.py builds the release message from the
\* empty string, one call of update_or_add_message per key.

\* The most calls of update_or_add_message in the model.
MaxApplies == 4

\* The piece "FENCE" is the line of three backquotes that opens and closes
\* the block of checksums.
\* File names: "a" is a prefix of "a6" (as cloudflared-linux-arm is of
\* cloudflared-linux-arm64), "b" is unrelated.
BinaryNames == {<<"a">>, <<"a", "6">>, <<"b">>}

Checksums == {"s1", "s2"}

\* str.find(sub, start): the first place from start on where sub begins, 0
\* (Python: -1) when there is none.
find(str, sub, start) ==
    LET at == {i \in start..(Len(str) - Len(sub) + 1) : SubSeq(str, i, i + Len(sub) - 1) = sub}
    IN IF at = {} THEN 0 ELSE CHOOSE i \in at : \A j \in at : i <= j

\* str.rfind(sub): the last place where sub begins, 0 when there is none.
rfind(str, sub) ==
    LET at == {i \in 1..(Len(str) - Len(sub) + 1) : SubSeq(str, i, i + Len(sub) - 1) = sub}
    IN IF at = {} THEN 0 ELSE CHOOSE i \in at : \A j \in at : i >= j

\* str.replace(old, new): every occurrence of old, from the left.
RECURSIVE replace(_, _, _)
replace(str, old, new) ==
    LET i == find(str, old, 1) IN
    IF i = 0 THEN str
    ELSE SubSeq(str, 1, i - 1) \o new \o replace(SubSeq(str, i + Len(old), Len(str)), old, new)

\* update_or_add_message(msg, name, sha)
update_or_add_message(msg, name, sha) ==
    LET new_text == name \o <<": ", sha, "\n">>
        start == find(msg, name, 1)
        end == IF start = 0 THEN 0 ELSE find(msg, <<"\n">>, start)
        back == rfind(msg, <<"FENCE">>)
    IN IF start # 0 /\ end # 0
       THEN replace(msg, SubSeq(msg, start, end), new_text)
       ELSE IF back # 0
       THEN SubSeq(msg, 1, back - 1) \o new_text \o <<"FENCE">>
       ELSE msg \o <<" ", "\n", "### SHA256 Checksums:", "\n", "FENCE", "\n">> \o new_text
                \o <<"FENCE">>

InitMsg ==
    /\ m_msg = <<>>
    /\ m_applied = {}
    /\ m_before = <<>>
    /\ m_re = FALSE
    /\ m_steps = 0
    /\ WaitIdle
    /\ LifeIdle
    /\ StartIdle
    /\ TermIdle
    /\ ReconIdle
    /\ LogIdle
    /\ SeqIdle
    /\ DumpIdle
    /\ SendIdle
    /\ CfgIdle
    /\ RelIdle

\* main: msg = update_or_add_message(msg, binary_name, checksum) for a key
\* that has not been applied yet.
MsgApply ==
    /\ m_steps < MaxApplies
    /\ \E name \in BinaryNames, sha \in Checksums :
        /\ \A a \in m_applied : a.name # name
        /\ m_msg' = update_or_add_message(m_msg, name, sha)
        /\ m_applied' = m_applied \cup {[name |-> name, sha |-> sha]}
    /\ m_before' = m_msg
    /\ m_re' = FALSE
    /\ m_steps' = m_steps + 1
    /\ UNCHANGED <<waitVars, lifeVars, startVars, termVars, reconVars, logVars, seqVars, dumpVars, sendVars, cfgVars, relVars>>

\* update_or_add_message(msg, name, sha) once more with a name and checksum
\* it was given before.
MsgRepeat ==
    /\ m_steps < MaxApplies
    /\ \E a \in m_applied :
        m_msg' = update_or_add_message(m_msg, a.name, a.sha)
    /\ m_before' = m_msg
    /\ m_re' = TRUE
    /\ m_steps' = m_steps + 1
    /\ UNCHANGED <<m_applied>>
    /\ UNCHANGED <<waitVars, lifeVars, startVars, termVars, reconVars, logVars, seqVars, dumpVars, sendVars, cfgVars, relVars>>

NextMsg == MsgApply \/ MsgRepeat

SpecMsg == InitMsg /\ [][NextMsg]_vars

\* C26 (as stated): at most one tunnel child is alive at any time across
\* consecutive tests.  Violated: a child started without capture_output that
\* needs more than BACKOFF_SECS seconds to exit after SIGTERM is alive when
\* the next test starts its own.
C26_Original == q_alive_max <= 1

\* What does hold: a second child is alive at a start only if the previous
\* child needed more than BACKOFF_SECS seconds to exit.
C26_Observed ==
    /\ q_alive_max <= 2
    /\ (q_pc = "start" /\ q_prev_left > 0) => q_prev_left <= MaxExitDelay - BACKOFF_SECS

\* ------------------------------------------------------------------------
\* Properties of wait_tunnel_ready (checked under SpecWait).

\* The endpoint answers every GET with steadyResp, from the first one on.
SteadyEndpoint == refuseInit = 0 /\ endpoint = "steady"

\* Exception types of a failed launch (subprocess.run(check=True), Popen).
LaunchFailures == {"CalledProcessError", "FileNotFoundError"}

\* C1: wait_tunnel_ready returns normally only if, within the attempt that
\* returned, GET /ready answered 200 with readyConnections >=
\* require_min_connections and, when tunnel_url is given, a later GET through
\* tunnel_url answered 200; the tunnel URL is never requested in an attempt
\* whose readiness check has not passed.
C1_ReadyBeforeTunnel ==
    /\ outcome = "returned" =>
        /\ readyOkAttempt = attempt_outer
        /\ tunnel_url # "None" => tunnelOkAttempt = attempt_outer
    /\ ~tunnelUnchecked

C1_Witness ==
    /\ outcome = "returned"
    /\ tunnel_url = "url"
    /\ attempt_outer >= 2
    /\ tunnelMode = "any"

\* C2: against an endpoint that steadily reports count c (200 with the count
\* when c > 0, 503 when c = 0; a tunnel URL, when given, that is up), the wait
\* returns, after one request, for every require_min_connections <= c, and
\* for every require_min_connections > c it raises once the attempts are used
\* up: the connection-count assertion after MAX_RETRIES requests when the
\* answer is 200, the status assertion when it is 503, every attempt having
\* sent its MAX_RETRIES requests.  It never returns normally then, and the
\* requests are bounded.
C2_SteadyCount ==
    (/\ w_pc = "done"
     /\ SteadyEndpoint
     /\ tunnelMode = "up"
     /\ (steadyResp.status = 200 <=> steadyResp.readyConnections > 0))
    => IF require_min_connections <= steadyResp.readyConnections
       THEN /\ outcome = "returned"
            /\ readyGets = 1
       ELSE /\ outcome = "raised"
            /\ exc.type = "AssertionError"
            /\ attempt_outer = MAX_RETRIES
            /\ IF steadyResp.status = 200
               THEN exc.check = "connections" /\ readyGets = MAX_RETRIES
               ELSE exc.check = "status" /\ readyGets = MAX_RETRIES * MAX_RETRIES

\* The endpoint steadily answers 503 with no ready connection: the wait has
\* used up its attempts and raised.
C2_Witness ==
    /\ w_pc = "done"
    /\ SteadyEndpoint
    /\ tunnelMode = "up"
    /\ steadyResp = Response(503, 0)
    /\ require_min_connections > steadyResp.readyConnections
    /\ outcome = "raised"
    /\ readyGets = MAX_RETRIES * MAX_RETRIES

\* C3: a transport failure is never fatal by itself.  If the endpoint refuses
\* the first k connections, k < MAX_RETRIES, and is ready afterwards, the wait
\* succeeds, each refusal having cost one request; a transport error reaches
\* the caller only when both retry budgets are used up.
C3_TransportRetried ==
    /\ (/\ w_pc = "done"
        /\ refuseInit < MAX_RETRIES
        /\ endpoint = "steady"
        /\ ReadyEnough(steadyResp)
        /\ tunnelMode = "up")
       => /\ outcome = "returned"
          /\ readyGets = refuseInit + 1
    /\ (outcome = "raised" /\ exc.type \in {"ConnectionError", "ReadTimeout"})
       => /\ attempt_outer = MAX_RETRIES
          /\ attempt_inner = MAX_RETRIES

C3_Witness ==
    /\ outcome = "returned"
    /\ refuseInit \in 1..(MAX_RETRIES - 1)
    /\ endpoint = "steady"
    /\ readyGets = refuseInit + 1

\* C4 as stated: one call of wait_tunnel_ready never sends more than
\* MAX_RETRIES requests to the readiness endpoint.
C4_Original == readyGets <= MAX_RETRIES

\* What holds instead: the two nested retries multiply.
C4_NestedBudget == readyGets <= MAX_RETRIES * MAX_RETRIES

\* The exception carries the snapshot: the connection-count assertion embeds
\* the body, the status assertion on /ready embeds the status code.
Carries(e, snap) ==
    \/ e.check = "connections" /\ e.body = snap.readyConnections
    \/ e.check = "status" /\ e.url = "ready" /\ e.status = snap.status

\* C5 as stated: when the wait raises, the failure carries the last readiness
\* snapshot observed during the wait, or the fact that none was observed.
C5_Original ==
    outcome = "raised" =>
        IF lastSnapshot = NoSnapshot THEN exc.check = "none"
        ELSE Carries(exc, lastSnapshot)

\* What the code does when every attempt fails: the call does not return
\* normally; it raises the exception of its last attempt, which is no launch
\* failure.  That exception embeds the last readiness snapshot only when the last attempt
\* failed on the /ready response itself (the connection-count assertion embeds
\* the body, the status assertion the status code); a transport error carries
\* none.
C5_LastAttemptRaised ==
    /\ (w_pc = "done" /\ readyOkAttempt # attempt_outer) => outcome = "raised"
    /\ outcome = "raised" =>
        /\ attempt_outer = MAX_RETRIES
        /\ exc.type \in {"AssertionError", "ConnectionError", "ReadTimeout"}
        /\ exc.type \notin LaunchFailures
        /\ exc.check = "connections" =>
            /\ lastSnapshot.status = 200
            /\ exc.body = lastSnapshot.readyConnections
            /\ exc.body < require_min_connections
        /\ (exc.check = "status" /\ exc.url = "ready") =>
            /\ exc.status = lastSnapshot.status
            /\ exc.status # 200
        /\ exc.check = "none" =>
            /\ exc.type \in {"ConnectionError", "ReadTimeout"}
            /\ exc.body = NoBody

C5_Witness ==
    /\ outcome = "raised"
    /\ exc.check = "connections"
    /\ endpoint = "any"
    /\ readyGets > MAX_RETRIES

\* ------------------------------------------------------------------------
\* Properties of check_tunnel_not_connected and of the scope (checked under
\* SpecLife).

\* C6: check_tunnel_not_connected returns normally only if on some attempt the
\* endpoint answered 503 with readyConnections == 0 or the connection failed;
\* if every one of the MAX_RETRIES attempts is answered with status 200 or
\* with readyConnections > 0, the call raises.
C6_NotConnected ==
    /\ c_outcome = "returned" => c_sawNotReady
    /\ (c_pc = "done" /\ c_allReady) =>
        /\ c_outcome = "raised"
        /\ c_attempt = MAX_RETRIES
        /\ c_gets = MAX_RETRIES

C6_Witness ==
    /\ c_pc = "done"
    /\ c_outcome = "returned"
    /\ c_attempt >= 2
    /\ proc = "running"
    /\ lastCheck.kind = "not_connected"
    /\ lastCheck.passed

\* C7: once the child has exited, every call of check_tunnel_not_connected
\* returns normally on its first attempt (one GET, refused, no retry), however
\* many calls are made in a row.
C7_IdempotentAfterExit ==
    /\ (c_pc = "done" /\ c_afterExit) =>
        /\ c_outcome = "returned"
        /\ c_attempt = 1
        /\ c_gets = 1
    /\ c_pc # "get" => c_okAfterExit = c_callsAfterExit

C7_Witness ==
    /\ c_pc = "done"
    /\ c_afterExit
    /\ c_okAfterExit >= 2

\* C8 as stated: a check of an observed connection count against an expected
\* count never fails when the observed count is at least the expected one.
C8_Original == lastCheck.observed >= lastCheck.expected => lastCheck.passed

\* C9 as stated: on every way of leaving the scope the child is sent a
\* terminate signal and its captured stdout and stderr are both drained before
\* the scope completes.
C9_Original ==
    (s_pc = "exited" /\ cfd = "Popen") =>
        /\ terminate_called
        /\ capture_output => (stdout_read /\ stderr_read)

\* C9 amended: on every way of leaving the scope (normal end, exception in the
\* body) terminate() is called on the child, so that a child still running
\* when the scope completes has been signalled by the scope, and the captured
\* stderr is read to its end (which the child's exit brings) before the scope
\* completes.  The captured stdout is not read.
C9_TerminateAndStderr ==
    (s_pc = "exited" /\ cfd = "Popen") =>
        /\ leave \in {"normal", "exception"}
        /\ terminate_called
        /\ proc = "running" => "scope" \in terminators
        /\ capture_output => (stderr_read /\ proc = "exited")

C9_Witness ==
    /\ s_pc = "exited"
    /\ scope_kind = "background"
    /\ leave = "exception"
    /\ capture_output
    /\ stderr_read
    /\ "scope" \in terminators

\* The scope does not complete while the child is still running.
C10_Awaited == (s_pc = "exited" /\ cfd = "Popen") => (terminate_called /\ proc = "exited")

\* No child is signalled to terminate by both the body and the scope.
C10_OneTerminator == Cardinality(terminators) <= 1

\* C10 as stated: every managed process is terminated and then awaited on
\* scope exit, and receives its termination from exactly one terminator.
C10_Original == C10_Awaited /\ C10_OneTerminator

\* ------------------------------------------------------------------------
\* Properties of terminate_gracefully (checked under SpecLife).

\* The cleanup of CloudflaredCli is past process.terminate().
PastCliTerminate == s_pc \in {"cli_poll", "cli_kill", "cli_kill_read", "cli_read"}

\* C11: terminate_gracefully calls terminate() before anything else, and
\* kill() only after wait_for_terminate made all its `attempts` polls and each
\* of them saw the child still running (polls counts the polls that did); a
\* poll that saw the child exited ends the wait with no kill.
C11_GracefulFirst ==
    /\ PastCliTerminate => terminate_called
    /\ s_pc \in {"cli_kill", "cli_kill_read"} => polls = attempts
    /\ kill_sent => (terminate_called /\ polls = attempts)
    /\ (s_pc \in {"cli_read", "exited"} /\ polls < attempts) => ~kill_sent

C11_Witness ==
    /\ s_pc = "cli_kill_read"
    /\ kill_sent
    /\ terminate_called
    /\ polls = attempts
    /\ "scope" \in terminators

\* ------------------------------------------------------------------------
\* Properties of the launch (checked under SpecStart).

\* The launch itself failed: raised by subprocess for a binary that cannot be
\* started or that exits nonzero, as such or wrapped by run_subprocess.
ProcessLaunchFailures == LaunchFailures \cup {"SubprocessError"}

\* The failure of a run that did not end within its timeout.
TimeoutFailure == "TimeoutExpired"

\* C12: a checked run (run_subprocess or foreground start_cloudflared with
\* check=True) of a binary that cannot be started or exits nonzero raises a
\* launch failure, a run that outlives its timeout raises TimeoutExpired, and
\* TimeoutExpired is not one of the launch failures.
C12_LaunchNotTimeout ==
    /\ TimeoutFailure \notin ProcessLaunchFailures
    /\ (st_pc = "done" /\ st_api \in {"run_subprocess", "foreground"} /\ st_check) =>
        /\ st_child \in {"missing", "exit_nonzero"} => st_result \in ProcessLaunchFailures
        /\ st_child = "runs" => st_result = TimeoutFailure
        /\ st_child = "exit_zero" => st_result = "returned"

C12_Witness ==
    /\ st_pc = "done"
    /\ st_api = "run_subprocess"
    /\ st_check
    /\ st_child = "exit_nonzero"
    /\ st_result = "SubprocessError"

C12_WitnessTimeout ==
    /\ st_pc = "done"
    /\ st_api = "run_subprocess"
    /\ st_check
    /\ st_child = "runs"
    /\ st_result = "TimeoutExpired"

\* C13 as stated: after a launch failure (the binary is missing, or the child
\* exits at once with a nonzero status) no readiness poll is made and the
\* failure that surfaces is the launch failure, in the foreground and with
\* new_process=True alike.
C13_Original ==
    (/\ st_api \in {"foreground", "background"}
     /\ st_api = "foreground" => st_check
     /\ st_child \in {"missing", "exit_nonzero"}) =>
        /\ readyGets = 0
        /\ st_pc = "done" => st_result \in ProcessLaunchFailures

\* What holds: a missing binary, and a nonzero exit of a checked foreground
\* run, end the launch with a launch failure and no poll; a background child
\* that exits at once is polled through the whole nested retry budget and the
\* failure that surfaces is the refused connection of the last GET.
C13_Observed ==
    /\ (st_child = "missing" \/ (st_api = "foreground" /\ st_check /\ st_child = "exit_nonzero")) =>
        /\ readyGets = 0
        /\ st_pc = "done" => st_result \in ProcessLaunchFailures
    /\ (st_pc = "done" /\ st_api = "background" /\ st_child \in {"exit_nonzero", "exit_zero"}) =>
        /\ st_result = "ConnectionError"
        /\ readyGets = MAX_RETRIES * MAX_RETRIES

\* ------------------------------------------------------------------------
\* Properties of the termination scenarios (checked under SpecTerm).

\* The steps of the test body that come after wait_tunnel_ready.
AfterReadyWait ==
    {"start_thread", "cond_wait", "grace_enter", "send_signal", "check", "proc_wait",
     "join", "is_alive", "grace_exit"}

\* C14 as stated: no termination signal reaches the child, from the test body
\* or from the cleanup of the scope, before a readiness wait has observed a
\* ready state.
C14_Original == t_signalled # {} => t_ready

\* C14 amended: the test body sends its termination signal only after
\* wait_tunnel_ready has returned, that is after a ready state was observed;
\* the cleanup of the scope terminates the child on every exit, and it does
\* so with no ready state observed exactly when wait_tunnel_ready raised.
C14_BodyAfterReady ==
    /\ t_pc \in AfterReadyWait => t_ready
    /\ t_body_signalled => t_ready
    /\ "body" \in t_signalled => t_ready
    /\ ("scope" \in t_signalled /\ ~t_ready) => (t_exc = "wait_ready" /\ ~t_body_signalled)

C14_Witness ==
    /\ t_pc = "check"
    /\ t_ready
    /\ t_body_signalled
    /\ "body" \in t_signalled

\* C15: a scenario that signals the child inside within_grace_period passes
\* only if the signal, the not-connected check, the exit of the child and, in
\* test_shutdown_once_no_connection, the join of the thread were all done and
\* the measured duration is strictly less than grace_period; with a measured
\* duration of grace_period or more the scenario fails.
C15_StrictGrace ==
    (t_pc = "done" /\ uses_grace(t_test)) =>
        /\ t_verdict = "passed" =>
            /\ t_duration # NoDuration
            /\ t_duration < grace_period
            /\ t_body_signalled
            /\ t_child = "exited"
            /\ uses_thread(t_test) => t_joined = "dead"
        /\ (t_duration # NoDuration /\ t_duration >= grace_period) => t_verdict = "failed"

C15_Witness ==
    /\ t_pc = "done"
    /\ t_test = "once_no_connection"
    /\ t_verdict = "passed"
    /\ t_duration = grace_period - 1
    /\ t_joined = "dead"

\* A run whose sequence took exactly grace_period seconds and nothing else
\* went wrong: it fails on the assertion of within_grace_period.
C15_BoundaryFails ==
    /\ t_pc = "done"
    /\ t_test = "no_connection"
    /\ t_duration = grace_period
    /\ t_exc = "grace_period"
    /\ t_verdict = "failed"

\* C16 as stated: test_graceful_shutdown passes only if the stream stayed
\* alive until the client read "502 Bad Gateway" or for the grace period (the
\* lines of grace_period seconds), and the shutdown, from the signal to the end
\* of the join, took no longer than grace_period.
C16_Original ==
    (t_pc = "done" /\ t_test = "graceful" /\ t_verdict = "passed") =>
        /\ t_saw502 \/ t_lines >= lines_needed
        /\ t_elapsed <= grace_period

\* What test_graceful_shutdown does require of a passing run: the child was
\* signalled after the ready state, was seen not connected, has exited, and
\* the thread had ended when join returned.
C16_Observed ==
    (t_pc = "done" /\ t_test = "graceful" /\ t_verdict = "passed") =>
        /\ t_ready
        /\ t_body_signalled
        /\ t_child = "exited"
        /\ t_joined = "dead"
        /\ t_thread \in {"returned", "raised"}

\* C17 as stated: whenever the streaming thread was started, it has been
\* joined and its liveness checked by the time the scenario is over.
C17_Original == (t_pc = "done" /\ t_thread # "none") => t_joined # "no"

\* What holds: the thread is joined and checked on the paths on which
\* terminate_by_signal returned.
C17_Observed ==
    (/\ t_pc = "done"
     /\ t_thread # "none"
     /\ "not_connected" \notin {t_exc, t_block_exc}) => t_joined # "no"

\* ------------------------------------------------------------------------
\* Blocking steps of the scope and its body (checked under SpecLife).

\* The steps of the driver: every step of SpecLife but the exit of the child.
LifeDriverNext ==
    \/ PopenOk \/ PopenFails
    \/ BodySendSignal \/ CtncCall \/ CtncGet \/ CtncDone \/ BodyWait
    \/ BodyExpectConns \/ BodyReturn \/ BodyRaise
    \/ FinallyTerminate \/ FinallyReadStderr
    \/ CliTerminate \/ CliPoll \/ CliKill \/ CliKillRead \/ CliReadStderr

\* The driver sits in a call that returns only when the child exits, and the
\* child has not been killed: it stays there for as long as the child likes.
\* (A body stopped by MaxCalls is stopped by the model, not by the child.)
LifeBlocked ==
    /\ s_pc # "exited"
    /\ ~kill_sent
    /\ ~(s_pc = "body" /\ b_pc = "check" /\ c_calls >= MaxCalls)
    /\ ~ENABLED LifeDriverNext

\* C18 as stated: whatever the child does, the driver is never in a blocking
\* step that only the child can end.
C18_Original == ~LifeBlocked

\* What holds: the driver blocks on the child only in cloudflared.wait() of
\* terminate_by_signal and in cfd.stderr.read() of the cleanup of
\* run_cloudflared_background; the cleanup of CloudflaredCli polls a bounded
\* number of times and kills.
C18_Observed ==
    LifeBlocked =>
        /\ proc = "running"
        /\ scope_kind = "background"
        /\ \/ s_pc = "body" /\ b_pc = "wait"
           \/ s_pc = "read_stderr"

\* ------------------------------------------------------------------------
\* Properties of the reconnect scenario (checked under SpecRecon).

\* The last wait of a repetition has returned.
RepetitionDone == r_reobserved # NoTime

\* C19 as stated: a repetition writes default_ha_conns directives, after a
\* wait observed that many ready connections; it then observes the endpoint
\* not ready and observes default_ha_conns ready connections again no later
\* than 2 x default_reconnect_secs after the last directive.
C19_Original ==
    RepetitionDone =>
        /\ r_directives = default_ha_conns
        /\ r_ready_n
        /\ r_zero
        /\ r_reobserved <= 2 * default_reconnect_secs

\* C19 amended: as stated, but the scenario sleeps 2 x default_reconnect_secs
\* after check_tunnel_not_connected has returned and only then waits for
\* default_ha_conns ready connections: it observes them no earlier than
\* 2 x default_reconnect_secs after the last directive.
C19_SettleThenReady ==
    /\ r_directives > 0 => r_runs > 0
    /\ r_pc \in {"send", "observe", "sleep", "wait_again"} => r_ready_n
    /\ r_pc \in {"sleep", "wait_again"} => (r_directives = default_ha_conns /\ r_zero)
    /\ RepetitionDone =>
        /\ r_directives = default_ha_conns
        /\ r_ready_n
        /\ r_zero
        /\ r_reobserved >= 2 * default_reconnect_secs

C19_Witness ==
    /\ RepetitionDone
    /\ r_repeat = named_repeat
    /\ r_rep = 2
    /\ r_directives = default_ha_conns
    /\ r_reobserved > 2 * default_reconnect_secs

\* ------------------------------------------------------------------------
\* The streaming thread and within_grace_period (checked under SpecTerm).

\* C21 as stated: when the streaming thread of test_graceful_shutdown raised
\* (it could not connect, reading the stream failed, or its assertion on the
\* number of lines failed), the test fails.
C21_Original ==
    (t_pc = "done" /\ t_test = "graceful" /\ t_thread = "raised") => t_verdict = "failed"

\* What the main thread does check: a thread still alive when the join ends
\* fails the test.
C21_Observed ==
    (t_pc = "done" /\ t_joined = "alive") => t_verdict = "failed"

\* C27 as stated: in the scenarios with a streaming thread the signal is sent
\* only when requests.get of the thread has returned its response.
C27_Original == (uses_thread(t_test) /\ t_body_signalled) => t_sig_established

\* C29 as stated: the context raises the timing assertion exactly when the
\* block returned after grace_period seconds or more, and an exception raised
\* by the block always reaches the caller.
C29_Original ==
    (t_duration # NoDuration) =>
        /\ t_block_exc = "none" => (t_exc = "grace_period" <=> t_duration >= grace_period)
        /\ t_block_exc # "none" => t_exc = t_block_exc

\* C29 amended: the context raises the timing assertion exactly when the
\* block took grace_period seconds or more, whether the block returned or
\* raised; the exception of the block reaches the caller only when the block
\* took less than grace_period seconds.
C29_FinallyAssertWins ==
    (t_duration # NoDuration) =>
        /\ t_exc = "grace_period" <=> t_duration >= grace_period
        /\ t_duration < grace_period => t_exc = t_block_exc

C29_Witness ==
    /\ t_duration # NoDuration
    /\ t_duration >= grace_period
    /\ t_block_exc = "thread_alive"
    /\ t_exc = "grace_period"

\* ------------------------------------------------------------------------
\* wait_for_terminate (checked under SpecLife).

\* wait_for_terminate has returned False and kill() is not yet called.
ReturnedFalse == s_pc = "cli_kill"

\* wait_for_terminate has returned True.
ReturnedTrue == s_pc = "cli_read" /\ ~kill_sent

\* C28 as stated: at most attempts polls; when the call returns False the
\* child is still running, so that a child that exits at any time before the
\* return makes the call return True.
C28_Original ==
    /\ polls <= attempts
    /\ ReturnedFalse => proc = "running"

\* What the code does: at most attempts polls; the call returns True exactly
\* when one of them saw the child exited, and False after attempts polls that all
\* saw it running, each followed by a sleep of poll_interval: a child that
\* exits after the last poll has exited when False is returned.
C28_PollsDecide ==
    /\ polls <= attempts
    /\ ReturnedFalse => polls = attempts
    /\ ReturnedTrue => (proc = "exited" /\ polls < attempts)
    /\ s_pc = "cli_poll" => polls < attempts

C28_Witness ==
    /\ ReturnedTrue
    /\ proc = "exited"
    /\ polls = attempts - 1

\* False is returned for a child that has exited.
C28_LateExit ==
    /\ ReturnedFalse
    /\ proc = "exited"

\* ------------------------------------------------------------------------
\* The checks between the directives (checked under SpecRecon).

\* C30: the check after directive k < default_ha_conns is wait_tunnel_ready
\* requiring default_ha_conns - k connections, and it passes exactly on an
\* answer that reports that many or more, whether a connection is down
\* already or not; only the check after the last directive is
\* check_tunnel_not_connected, which passes on zero ready connections (or a
\* refused connection) only.
C30_AtLeastRemaining ==
    /\ r_last.k \in 0..default_ha_conns
    /\ (r_last.k >= 1 /\ r_last.k < default_ha_conns) =>
        /\ r_last.waited
        /\ r_last.required = default_ha_conns - r_last.k
        /\ r_last.ok <=> /\ r_last.resp.kind = "Response"
                         /\ r_last.resp.readyConnections >= default_ha_conns - r_last.k
    /\ r_last.k = default_ha_conns =>
        /\ ~r_last.waited
        /\ r_last.required = 0
        /\ r_last.ok <=> \/ r_last.resp.kind = "ConnectionError"
                         \/ /\ r_last.resp.kind = "Response"
                            /\ r_last.resp.readyConnections = 0
    /\ r_zero => (r_last.k = default_ha_conns /\ r_last.ok)

\* The first directive has not taken a connection down when the check looks:
\* all default_ha_conns connections are reported and the check passes.
C30_Witness ==
    /\ r_last.k = 1
    /\ r_last.ok
    /\ r_last.resp.kind = "Response"
    /\ r_last.resp.readyConnections = default_ha_conns
    /\ r_pc = "send"

\* C22 (as stated): assert_json_log accepts a file only if each of its lines
\* is a record with level, time and message.  Violated: only the first line
\* is read.
C22_Original ==
    (l_fn = "json" /\ l_pc = "done" /\ l_result = "returned") => f_bad = 0

\* C22 (amended): assert_json_log reads the first line of the file only and
\* accepts exactly when that line is a record with level, time and message;
\* an empty file is rejected and no later line is looked at.
C22_FirstLineOnly ==
    (l_fn = "json" /\ l_pc = "done") =>
        /\ l_result = "returned" <=> f_first = "record"
        /\ l_read <= 1
        /\ l_result # "none"

\* A file whose first line is a record and whose second line is malformed
\* has been accepted.
C22_Witness ==
    /\ l_fn = "json"
    /\ l_pc = "done"
    /\ l_result = "returned"
    /\ f_bad = 2

\* C23: assert_log_in_file and assert_log_to_terminal read at most
\* MAX_LOG_LINES lines and no more than the input has, return exactly when
\* expect_message is in one of the lines read, and raise their exception
\* otherwise, also when the message first occurs after line MAX_LOG_LINES.
\* A call that has not come back is in readline on the pipe of a child that
\* keeps stderr open, with every line written so far read, fewer than
\* MAX_LOG_LINES of them and none with the message.
C23_BoundedScan ==
    /\ l_pc = "waiting" =>
        /\ l_fn = "terminal" /\ ~f_eof
        /\ l_result = "none"
        /\ l_read = f_len /\ l_read < MAX_LOG_LINES
        /\ f_match = 0
    /\ (l_fn \in {"terminal", "in_file"} /\ l_pc = "done") =>
        /\ l_read <= MAX_LOG_LINES
        /\ l_read <= f_len
        /\ l_result = "returned" <=> f_match \in 1..l_read
        /\ l_result # "returned" =>
            l_result = IF l_fn = "terminal"
                       THEN "Exception: terminal log doesn't contain Starting Hello"
                       ELSE "Exception: log file doesn't contain Starting Hello"
        /\ f_match > MAX_LOG_LINES => l_result # "returned"

\* A file whose first line with the message is line MAX_LOG_LINES + 1 has
\* been reported as not containing it.
C23_Witness ==
    /\ l_fn = "in_file"
    /\ l_pc = "done"
    /\ f_match = MAX_LOG_LINES + 1
    /\ l_read = MAX_LOG_LINES
    /\ l_result = "Exception: log file doesn't contain Starting Hello"

\* The end of the input stops the scan before MAX_LOG_LINES lines.
C23_WitnessEndOfInput ==
    /\ l_fn = "terminal"
    /\ l_pc = "done"
    /\ f_len = 2
    /\ f_eof
    /\ l_read = 2
    /\ l_result = "Exception: terminal log doesn't contain Starting Hello"

\* C24: assert_log_to_dir sends at most max_batches batches and none after a
\* batch that left exactly 2 files; it returns only if the batch it stopped
\* at left exactly 2 files, cloudflared.log among them with size > 0, the
\* other of size > rotate_after_size and containing expect_message.
C24_ReturnsOnlyRotated ==
    l_fn = "to_dir" =>
        /\ l_batches <= max_batches
        /\ l_after_two = 0
        /\ l_result = "returned" =>
            /\ l_batches >= 1
            /\ d_files = 2
            /\ d_default
            /\ d_cur_size > 0
            /\ d_rot_size > rotate_after_size
            /\ f_match \in 1..f_len

\* The third batch left the two files and the call returned.
C24_Witness ==
    /\ l_fn = "to_dir"
    /\ l_pc = "done"
    /\ l_result = "returned"
    /\ l_batches = max_batches

\* C25 (as stated): assert_log_to_dir fails only after max_batches batches
\* and with an error that tells which check failed.  Violated: a failed
\* size check fails at the first batch that left 2 files, with an
\* AssertionError that has no message.
C25_Original ==
    (l_fn = "to_dir" /\ l_pc = "done" /\ l_result # "returned") =>
        /\ l_batches = max_batches
        /\ l_result # "AssertionError"

\* What the code does: assert_log_to_dir never ends without returning or raising
\* and returns only when every check passed.  The budget of max_batches is
\* used up only when no batch leaves exactly 2 files, and then the error is
\* the exception "Log file isn't rotated ..."; a check that fails on 2 files
\* fails at once, whatever is left of the budget, the two size checks with an
\* AssertionError without message, the scan with its own exception, the
\* second reading of the current file with the error of assert_json_log.  A
\* transport error that send_requests raises ends the call in whatever turn
\* of the loop it happens.
C25_FailsAtFirstTwoFiles ==
    (l_fn = "to_dir" /\ l_pc = "done") =>
        /\ l_result # "none"
        /\ l_check = "none" <=> l_result = "returned"
        /\ l_check \in {"budget", "send_requests"} <=> d_files # 2
        /\ l_check = "send_requests" <=> l_result \in {"ConnectionError", "ReadTimeout"}
        /\ l_check = "json_again" =>
            (f_again # "record" /\ l_result = assert_json_log(f_again))
        /\ l_check = "budget" =>
            /\ l_batches = max_batches
            /\ l_result = "Exception: Log file isn't rotated after sending 3000 requests"
        /\ l_check \in {"current_size", "rotated_size"} => l_result = "AssertionError"
        /\ l_check = "substring" =>
            l_result = "Exception: log file doesn't contain Starting Hello"
        /\ l_check \notin {"none", "budget"} => l_batches \in 1..max_batches

\* The first batch left 2 files, the rotated one not above the threshold:
\* the call has failed with two batches of the budget unused.
C25_Witness ==
    /\ l_fn = "to_dir"
    /\ l_pc = "done"
    /\ l_check = "rotated_size"
    /\ l_result = "AssertionError"
    /\ l_batches = 1

\* C31 (as stated): the exception that leaves a failed wait_tunnel_ready is
\* the failure of the last polling attempt, whatever cfd_logs is.  Violated:
\* with a path that does not exist the open() of the log dump raises
\* FileNotFoundError inside the except clause, and raise e is not reached.
C31_Original ==
    cfd_logs # "unset" => caller_exc = exc

\* What does hold: the not-ready failure reaches the caller exactly when
\* cfd_logs is None or a path that exists.
C31_Observed ==
    cfd_logs # "unset" =>
        /\ exc # NoExc
        /\ caller_exc = exc <=> cfd_logs # "missing"
        /\ cfd_logs = "missing" => caller_exc.type = "FileNotFoundError"

\* C32: send_request with require_ok returns a response of status 200 only,
\* and raises after MAX_RETRIES attempts otherwise; without require_ok a
\* response with another status ends the call at once with None, and only
\* transport errors are retried and raised.  send_requests without
\* require_ok is never ended by a status: when it returns it has called
\* send_request count times and errors counts the calls that gave None.
C32_StatusNeverFails ==
    /\ sd_attempt \in 1..MAX_RETRIES
    /\ sd_last.gets <= MAX_RETRIES
    /\ sd_last.ret = "resp" => sd_last.status = 200
    /\ sd_require_ok => (sd_last.ret # "None" /\ sd_errors = 0)
    /\ sd_last.ret = "None" => (sd_last.status # 200 /\ sd_last.statuses = 1)
    /\ ~sd_require_ok => sd_last.statuses <= 1
    /\ sd_outcome = "raised" =>
        /\ sd_last.gets = MAX_RETRIES
        /\ ~sd_require_ok => sd_exc.type \in {"ConnectionError", "ReadTimeout"}
    /\ sd_outcome = "returned" =>
        /\ sd_calls = sd_count
        /\ sd_errors = sd_non200
    /\ (sd_pc = "request" /\ sd_count > 0) => sd_calls < sd_count

\* Without require_ok every call got another status than 200, one of them
\* after a transport error that was retried, and send_requests has returned.
C32_Witness ==
    /\ ~sd_require_ok
    /\ sd_outcome = "returned"
    /\ sd_count = MaxCount
    /\ sd_errors = sd_count
    /\ sd_gets > sd_calls

\* C33: in full_config no-autoupdate and metrics carry the object's own
\* values whatever additional_config says; in a NamedTunnelConfig tunnel,
\* credentials-file and ingress carry additional_config's value when it has
\* the key and the object's own otherwise; every other key of
\* additional_config is kept, no key is invented, and the dict that was
\* passed holds afterwards what it held before.
C33_Precedence ==
    cf_pc = "built" =>
        LET forced == {"no-autoupdate", "metrics"}
            defaults == IF cf_class = "NamedTunnelConfig"
                        THEN {"tunnel", "credentials-file", "ingress"} ELSE {}
        IN
        /\ DOMAIN cf_full = DOMAIN cf_before \cup forced \cup defaults
        /\ \A k \in forced : cf_full[k] = "base"
        /\ \A k \in defaults :
            cf_full[k] = IF k \in DOMAIN cf_before THEN cf_before[k] ELSE "base"
        /\ \A k \in DOMAIN cf_before \ forced : cf_full[k] = cf_before[k]
        /\ cf_additional = cf_before

\* A NamedTunnelConfig was built from a dict that sets metrics and ingress
\* and not tunnel.
C33_Witness ==
    /\ cf_pc = "built"
    /\ cf_class = "NamedTunnelConfig"
    /\ DOMAIN cf_before = {"metrics", "ingress", "loglevel"}
    /\ cf_before["metrics"] = "add"
    /\ cf_full["metrics"] = "base"
    /\ cf_full["ingress"] = "add"
    /\ cf_full["tunnel"] = "base"
    /\ cf_full["loglevel"] = "add"

\* C34 (as stated): assert_tag_exists raises only if no tag of the repo
\* matches the version.  Violated: it compares the first tag only, and raises
\* when the matching tag is listed after another one.
C34_Original ==
    \A b \in Builds :
        rl_why[b] = "tag" => ~(\E i \in 1..Len(rl_tags) : rl_tags[i] = "v")

\* What does hold: it raises exactly when the list of tags is empty or its
\* first tag is not the version.
C34_Observed ==
    \A b \in Builds :
        /\ rl_why[b] = "tag" => (Len(rl_tags) = 0 \/ rl_tags[1] # "v")
        /\ rl_pc[b] = "create" => (Len(rl_tags) > 0 /\ rl_tags[1] = "v")

\* C35 (as stated): when the tag of the version exists, at most one release
\* is created and every build gets that release from get_or_create_release.
\* Violated: with the tag listed second, assert_tag_exists raises in both
\* builds and neither gets a release.
C35_Original ==
    (\E i \in 1..Len(rl_tags) : rl_tags[i] = "v") =>
        /\ rl_created <= 1
        /\ \A b \in Builds :
            /\ rl_why[b] # "tag"
            /\ rl_got[b] # "none" => rl_got[b] = rl_release

\* What does hold: when the tag of the version is the first of the list, at
\* most one release is created, no build fails in get_or_create_release, and
\* every build that has left it holds the one release of the version.
C35_Observed ==
    (Len(rl_tags) > 0 /\ rl_tags[1] = "v") =>
        /\ rl_created <= 1
        /\ \A b \in Builds :
            /\ rl_why[b] # "tag"
            /\ rl_got[b] # "none" => rl_got[b] = rl_release
            /\ rl_pc[b] \in {"look", "put", "hash", "done"} => rl_got[b] # "none"

\* C36: when a file of the directory has another version than the release
\* version, no build gets past the first loop: it exits with status 1 there,
\* no release is created, no asset uploaded and no checksum sent.
C36_CheckBeforeEffects ==
    (\E i \in 1..Len(rl_dir) : rl_dir[i].kind = "mismatch") =>
        /\ rl_created = 0
        /\ rl_release \in {"none", "old"}
        /\ rl_assets = {}
        /\ rl_kv = {}
        /\ \A b \in Builds :
            /\ rl_pc[b] \in {"check", "exit1"}
            /\ rl_pc[b] = "exit1" => rl_why[b] = "version"

\* The second file of the directory has the wrong version, the first has the
\* right one: a build has exited and nothing of the first file was uploaded.
C36_Witness ==
    /\ Len(rl_dir) = 2
    /\ rl_dir[1].kind = "match"
    /\ rl_dir[2].kind = "mismatch"
    /\ rl_tags = <<"v">>
    /\ \E b \in Builds : rl_pc[b] = "exit1" /\ rl_why[b] = "version"

\* C37: a build whose upload_asset finds the file name among the assets of
\* the release goes on to the next file and changes neither the assets nor
\* the checksum store; so no name is uploaded twice and no checksum sent
\* twice, however often the upload is run.
C37_SkipPresent ==
    /\ [](\A n \in AssetNames : rl_uploads[n] <= 1 /\ rl_puts[n] <= 1)
    /\ [][\A b \in Builds :
            (/\ rl_pc[b] = "look"
             /\ rl_dir[rl_i[b]].name \in rl_assets
             /\ <<rl_pc[b], rl_i[b]>>' # <<rl_pc[b], rl_i[b]>>) =>
                /\ rl_assets' = rl_assets
                /\ rl_kv' = rl_kv
                /\ rl_uploads' = rl_uploads
                /\ rl_puts' = rl_puts
                /\ rl_pc'[b] # "put"
                /\ rl_why'[b] = "none"]_vars

\* Both builds have gone through the two files of the directory: each file
\* was uploaded once and its checksum sent once.
C37_Witness ==
    /\ Len(rl_dir) = 2
    /\ \A b \in Builds : rl_pc[b] = "done"
    /\ rl_assets = {rl_dir[1].name, rl_dir[2].name}
    /\ rl_kv = rl_assets
    /\ \A n \in rl_assets : rl_uploads[n] = 1 /\ rl_puts[n] = 1

\* The places of m_msg where the line "name: sha" stands.
LinesOf(name, sha) ==
    {i \in 1..Len(m_msg) :
        /\ i > 1
        /\ m_msg[i - 1] = "\n"
        /\ i + Len(name) + 2 <= Len(m_msg)
        /\ SubSeq(m_msg, i, i + Len(name) + 2) = name \o <<": ", sha, "\n">>}

\* C38 (as stated): after one call per name the message holds exactly one
\* line "name: sha" for every name given, and a call repeated with the same
\* name and sha leaves the message as it was.  Violated: a name that is the
\* beginning of a name given before is found inside that name's line, and
\* the line of the longer name is overwritten.
C38_Original ==
    /\ \A a \in m_applied : Cardinality(LinesOf(a.name, a.sha)) = 1
    /\ m_re => m_msg = m_before

\* What does hold: the same, as long as no name given is part of another
\* name given.
C38_Observed ==
    (\A a, b \in m_applied : a.name # b.name => find(b.name, a.name, 1) = 0) =>
        /\ \A a \in m_applied : Cardinality(LinesOf(a.name, a.sha)) = 1
        /\ m_re => m_msg = m_before

====
